---------------------------- MODULE Spec2Model ----------------------------
(***************************************************************************)
(* EdgeMind: the tools Lambda of infra/stacks/agentcore_stack.py, the shim  *)
(* that turns a Bedrock Agent tool call into one HTTP request against the  *)
(* EdgeMind backend and wraps the answer in the action-group response.     *)
(*                                                                         *)
(* Python values are tagged records; a Python str is the sequence of its   *)
(* characters, so that startswith, slicing, lstrip, urllib.parse.quote and *)
(* the f-strings are computed character by character.  A Python exception  *)
(* is a value [raised |-> TRUE, exc |-> ...] handed up the call chain.     *)
(*                                                                         *)
(* Five specifications share the operators: Spec, one invocation of the    *)
(* Lambda at a time; SpecTimed, the same with the socket timeout of        *)
(* urlopen in view; SpecShared, invocations side by side; SpecAgents,      *)
(* invoke of the agents (agent/*/src/main.py); SpecKb, the knowledge base  *)
(* that ingest_kb.py fills and local_kb.py queries.  The actions of each   *)
(* leave the variables of the others alone.                                *)
(***************************************************************************)
EXTENDS Integers, Sequences, FiniteSets, TLC

(***************************************************************************)
(* Bounds of the model.                                                    *)
(***************************************************************************)
\* longest enterprise value an event carries, in characters
MaxLen == 4

(***************************************************************************)
(* String literals of the Lambda source, as character sequences.           *)
(***************************************************************************)
\* the keys of the dicts the Lambda reads and builds, and those of the events
\* and items of the agents' streams
Key ==
    [actionGroup |-> <<"a", "c", "t", "i", "o", "n", "G", "r", "o", "u", "p">>,
     apiPath |-> <<"a", "p", "i", "P", "a", "t", "h">>,
     httpMethod |-> <<"h", "t", "t", "p", "M", "e", "t", "h", "o", "d">>,
     requestBody |-> <<"r", "e", "q", "u", "e", "s", "t", "B", "o", "d", "y">>,
     content |-> <<"c", "o", "n", "t", "e", "n", "t">>,
     application_json |-> <<"a", "p", "p", "l", "i", "c", "a", "t", "i", "o", "n", "/", "j", "s", "o", "n">>,
     properties |-> <<"p", "r", "o", "p", "e", "r", "t", "i", "e", "s">>,
     name |-> <<"n", "a", "m", "e">>,
     value |-> <<"v", "a", "l", "u", "e">>,
     enterprise |-> <<"e", "n", "t", "e", "r", "p", "r", "i", "s", "e">>,
     query |-> <<"q", "u", "e", "r", "y">>,
     max_rows |-> <<"m", "a", "x", "_", "r", "o", "w", "s">>,
     error |-> <<"e", "r", "r", "o", "r">>,
     messageVersion |-> <<"m", "e", "s", "s", "a", "g", "e", "V", "e", "r", "s", "i", "o", "n">>,
     response |-> <<"r", "e", "s", "p", "o", "n", "s", "e">>,
     responseBody |-> <<"r", "e", "s", "p", "o", "n", "s", "e", "B", "o", "d", "y">>,
     body |-> <<"b", "o", "d", "y">>,
     data |-> <<"d", "a", "t", "a">>,
     current_tool_use |-> <<"c", "u", "r", "r", "e", "n", "t", "_", "t", "o", "o", "l", "_", "u", "s", "e">>,
     type |-> <<"t", "y", "p", "e">>,
     tool_use |-> <<"t", "o", "o", "l", "_", "u", "s", "e">>]
S_1_0 == <<"1", ".", "0">>
S_POST == <<"P", "O", "S", "T">>
S_GET == <<"G", "E", "T">>
S_ALL == <<"A", "L", "L">>
S_get_oee_breakdown == <<"g", "e", "t", "_", "o", "e", "e", "_", "b", "r", "e", "a", "k", "d", "o", "w", "n">>
S_get_equipment_states == <<"g", "e", "t", "_", "e", "q", "u", "i", "p", "m", "e", "n", "t", "_", "s", "t", "a", "t", "e", "s">>
S_get_waste_by_line == <<"g", "e", "t", "_", "w", "a", "s", "t", "e", "_", "b", "y", "_", "l", "i", "n", "e">>
S_get_batch_health == <<"g", "e", "t", "_", "b", "a", "t", "c", "h", "_", "h", "e", "a", "l", "t", "h">>
S_query_influxdb == <<"q", "u", "e", "r", "y", "_", "i", "n", "f", "l", "u", "x", "d", "b">>
S_path_oee == <<"/", "a", "p", "i", "/", "o", "e", "e", "/", "v", "2", "?", "e", "n", "t", "e", "r", "p", "r", "i", "s", "e", "=">>
S_path_status == <<"/", "a", "p", "i", "/", "f", "a", "c", "t", "o", "r", "y", "/", "s", "t", "a", "t", "u", "s", "?", "e", "n", "t", "e", "r", "p", "r", "i", "s", "e", "=">>
\* a bug: the path of get_equipment_states pasted into get_waste_by_line
S_path_waste_pasted == <<"/", "a", "p", "i", "/", "f", "a", "c", "t", "o", "r", "y", "/", "s", "t", "a", "t", "u", "s", "?", "e", "n", "t", "e", "r", "p", "r", "i", "s", "e", "=">>
S_path_waste == <<"/", "a", "p", "i", "/", "w", "a", "s", "t", "e", "/", "b", "r", "e", "a", "k", "d", "o", "w", "n", "?", "e", "n", "t", "e", "r", "p", "r", "i", "s", "e", "=">>
S_path_batch == <<"/", "a", "p", "i", "/", "b", "a", "t", "c", "h", "/", "h", "e", "a", "l", "t", "h", "?", "e", "n", "t", "e", "r", "p", "r", "i", "s", "e", "=", "E", "n", "t", "e", "r", "p", "r", "i", "s", "e", "%", "2", "0", "C">>
S_path_influx == <<"/", "a", "p", "i", "/", "i", "n", "f", "l", "u", "x", "/", "q", "u", "e", "r", "y">>
S_Unknown_function == <<"U", "n", "k", "n", "o", "w", "n", " ", "f", "u", "n", "c", "t", "i", "o", "n", ":", " ">>
S_Backend_returned == <<"B", "a", "c", "k", "e", "n", "d", " ", "r", "e", "t", "u", "r", "n", "e", "d", " ">>
S_colon == <<":", " ">>
S_Failed_to_connect == <<"F", "a", "i", "l", "e", "d", " ", "t", "o", " ", "c", "o", "n", "n", "e", "c", "t", " ", "t", "o", " ", "b", "a", "c", "k", "e", "n", "d", ":", " ">>
S_BACKEND_API_URL == <<"h", "t", "t", "p", ":", "/", "/", "l", "o", "c", "a", "l", "h", "o", "s", "t", ":", "3", "0", "0", "0">>
S_Content_Type == <<"C", "o", "n", "t", "e", "n", "t", "-", "T", "y", "p", "e">>

(***************************************************************************)
(* Texts the Python runtime and the backend produce.                       *)
(***************************************************************************)
\* str(AttributeError) of x.startswith for an x that is no str, after the type name
S_no_attribute_startswith == <<"'", " ", "o", "b", "j", "e", "c", "t", " ", "h", "a", "s", " ", "n", "o", " ", "a", "t", "t", "r", "i", "b", "u", "t", "e", " ", "'", "s", "t", "a", "r", "t", "s", "w", "i", "t", "h", "'">>
\* str(json.JSONDecodeError) of a body that is no JSON text
S_Expecting_value == <<"E", "x", "p", "e", "c", "t", "i", "n", "g", " ", "v", "a", "l", "u", "e", ":", " ", "l", "i", "n", "e", " ", "1", " ", "c", "o", "l", "u", "m", "n", " ", "1", " ", "(", "c", "h", "a", "r", " ", "0", ")">>
\* str(socket.timeout), str(ConnectionRefusedError), HTTP reason phrases
S_timed_out == <<"t", "i", "m", "e", "d", " ", "o", "u", "t">>
S_Connection_refused == <<"[", "E", "r", "r", "n", "o", " ", "1", "1", "1", "]", " ", "C", "o", "n", "n", "e", "c", "t", "i", "o", "n", " ", "r", "e", "f", "u", "s", "e", "d">>
S_Service_Unavailable == <<"S", "e", "r", "v", "i", "c", "e", " ", "U", "n", "a", "v", "a", "i", "l", "a", "b", "l", "e">>
S_Not_Found == <<"N", "o", "t", " ", "F", "o", "u", "n", "d">>
\* response bodies of the backend
S_json_oee == <<"{", "\"", "o", "e", "e", "\"", ":", " ", "0", ".", "8", "2", "}">>
S_json_oee_compact == <<"{", "\"", "o", "e", "e", "\"", ":", "0", ".", "8", "2", "}">>
S_json_error_x == <<"{", "\"", "e", "r", "r", "o", "r", "\"", ":", " ", "\"", "x", "\"", "}">>
S_json_null == <<"n", "u", "l", "l">>
S_html == <<"<", "h", "t", "m", "l", ">">>
S_oee == <<"o", "e", "e">>
S_0_82 == <<"0", ".", "8", "2">>
S_x == <<"x">>
\* values of the events
S_OEETools == <<"O", "E", "E", "T", "o", "o", "l", "s">>
S_nonexistent == <<"n", "o", "n", "e", "x", "i", "s", "t", "e", "n", "t">>
S_get_oee == <<"g", "e", "t", "_", "o", "e", "e">>
S_GET_OEE_BREAKDOWN == <<"G", "E", "T", "_", "O", "E", "E", "_", "B", "R", "E", "A", "K", "D", "O", "W", "N">>
S_SELECT == <<"S", "E", "L", "E", "C", "T", " ", "1">>

(***************************************************************************)
(* Python values.                                                          *)
(***************************************************************************)
PyNone == [type |-> "NoneType"]
PyStr(s) == [type |-> "str", chars |-> s]
PyInt(n) == [type |-> "int", n |-> n]
PyFloat(r) == [type |-> "float", repr |-> r]
\* a list: its elements in order
PyList(xs) == [type |-> "list", elems |-> xs]
\* a dict: its <<key, value>> pairs in insertion order, keys distinct
PyDict(kvs) == [type |-> "dict", items |-> kvs]

IsStr(v) == v.type = "str"
IsDict(v) == v.type = "dict"

\* key in d
HasKey(d, k) == \E i \in 1..Len(d.items) : d.items[i][1] = k

\* d[k], for a key d holds
Lookup(d, k) == d.items[CHOOSE i \in 1..Len(d.items) : d.items[i][1] = k][2]

\* dict.get(k, default)
dict_get(d, k, default) == IF HasKey(d, k) THEN Lookup(d, k) ELSE default

\* d[k] = v: the value replaced in place, or the pair appended
dict_set(d, k, v) ==
    IF HasKey(d, k)
    THEN PyDict([i \in 1..Len(d.items) |->
                   IF d.items[i][1] = k THEN <<k, v>> ELSE d.items[i]])
    ELSE PyDict(Append(d.items, <<k, v>>))

\* a returned value, and a raised exception
Returned(v) == [raised |-> FALSE, value |-> v]
Raised(etype, msg) == [raised |-> TRUE, exc |-> [etype |-> etype, msg |-> msg]]

(***************************************************************************)
(* Library functions the Lambda calls, on character sequences.             *)
(***************************************************************************)
\* s.startswith(c), s.endswith(c) for a one-character c
startswith(s, c) == Len(s) >= 1 /\ s[1] = c
endswith(s, c) == Len(s) >= 1 /\ s[Len(s)] = c

\* s.lstrip(c): every leading c removed
RECURSIVE lstrip(_, _)
lstrip(s, c) == IF s # <<>> /\ Head(s) = c THEN lstrip(Tail(s), c) ELSE s

\* the characters urllib.parse.quote never encodes
Unreserved ==
    {"A", "B", "C", "D", "E", "F", "G", "H", "I", "J", "K", "L", "M",
     "N", "O", "P", "Q", "R", "S", "T", "U", "V", "W", "X", "Y", "Z",
     "a", "b", "c", "d", "e", "f", "g", "h", "i", "j", "k", "l", "m",
     "n", "o", "p", "q", "r", "s", "t", "u", "v", "w", "x", "y", "z",
     "0", "1", "2", "3", "4", "5", "6", "7", "8", "9", "_", ".", "-", "~"}

\* the two hex digits of an ASCII character quote encodes
HexCode(c) ==
    CASE c = " " -> <<"2", "0">>
      [] c = "\"" -> <<"2", "2">>
      [] c = "#" -> <<"2", "3">>
      [] c = "%" -> <<"2", "5">>
      [] c = "&" -> <<"2", "6">>
      [] c = "/" -> <<"2", "F">>
      [] c = "=" -> <<"3", "D">>
      [] c = "?" -> <<"3", "F">>

\* a bug: the value put in the URL as it is
quote_nothing(s) == s

\* a bug: quote with its default safe="/", the slash left as it is
RECURSIVE quote_default_safe(_)
quote_default_safe(s) ==
    IF s = <<>> THEN <<>>
    ELSE (IF Head(s) \in Unreserved \cup {"/"} THEN <<Head(s)>> ELSE <<"%">> \o HexCode(Head(s)))
         \o quote_default_safe(Tail(s))

\* urllib.parse.quote(s, safe='')
RECURSIVE quote(_)
quote(s) ==
    IF s = <<>> THEN <<>>
    ELSE (IF Head(s) \in Unreserved THEN <<Head(s)>> ELSE <<"%">> \o HexCode(Head(s)))
         \o quote(Tail(s))

\* str(n) of a non-negative int, as an f-string and json.dumps write it
RECURSIVE int_str(_)
int_str(n) ==
    LET d == <<"0", "1", "2", "3", "4", "5", "6", "7", "8", "9">>
    IN  IF n < 10 THEN <<d[n + 1]>> ELSE int_str(n \div 10) \o <<d[(n % 10) + 1]>>

\* json.dumps of a str: quoted, with " and \ escaped
RECURSIVE json_escape(_)
json_escape(s) ==
    IF s = <<>> THEN <<>>
    ELSE (IF Head(s) \in {"\"", "\\"} THEN <<"\\", Head(s)>> ELSE <<Head(s)>>)
         \o json_escape(Tail(s))

\* json.dumps(v): "key": value pairs joined by ", ", list elements likewise
RECURSIVE json_dumps(_)
RECURSIVE json_dumps_items(_)
RECURSIVE json_dumps_elems(_)
json_dumps(v) ==
    CASE v.type = "NoneType" -> <<"n", "u", "l", "l">>
      [] v.type = "str" -> <<"\"">> \o json_escape(v.chars) \o <<"\"">>
      [] v.type = "int" -> int_str(v.n)
      [] v.type = "float" -> v.repr
      [] v.type = "dict" -> <<"{">> \o json_dumps_items(v.items) \o <<"}">>
      [] v.type = "list" -> <<"[">> \o json_dumps_elems(v.elems) \o <<"]">>
json_dumps_items(kvs) ==
    IF kvs = <<>> THEN <<>>
    ELSE json_dumps(kvs[1][1]) \o <<":", " ">> \o json_dumps(kvs[1][2])
         \o (IF Len(kvs) > 1 THEN <<",", " ">> ELSE <<>>)
         \o json_dumps_items(Tail(kvs))
json_dumps_elems(xs) ==
    IF xs = <<>> THEN <<>>
    ELSE json_dumps(xs[1])
         \o (IF Len(xs) > 1 THEN <<",", " ">> ELSE <<>>)
         \o json_dumps_elems(Tail(xs))

\* json.loads(text) on the bodies the backend of this model sends: the parsed
\* value, or JSONDecodeError for a text that is no JSON
json_loads(text) ==
    CASE text \in {S_json_oee, S_json_oee_compact} ->
             Returned(PyDict(<< <<PyStr(S_oee), PyFloat(S_0_82)>> >>))
      [] text = S_json_error_x ->
             Returned(PyDict(<< <<PyStr(Key.error), PyStr(S_x)>> >>))
      [] text = S_json_null -> Returned(PyNone)
      [] OTHER -> Raised("JSONDecodeError", S_Expecting_value)

\* the classes an exception of class c is an instance of (its MRO)
Bases(c) ==
    CASE c = "HTTPError" -> {"HTTPError", "URLError", "OSError", "Exception"}
      [] c = "URLError" -> {"URLError", "OSError", "Exception"}
      [] c = "TimeoutError" -> {"TimeoutError", "OSError", "Exception"}
      [] c = "RemoteDisconnected" ->
             {"RemoteDisconnected", "ConnectionResetError", "ConnectionError", "OSError",
              "Exception"}
      [] c = "JSONDecodeError" -> {"JSONDecodeError", "ValueError", "Exception"}
      [] c = "AttributeError" -> {"AttributeError", "Exception"}
      [] c = "TypeError" -> {"TypeError", "Exception"}
      [] c = "ModuleNotFoundError" -> {"ModuleNotFoundError", "ImportError", "Exception"}
      [] c = "MCPClientInitializationError" -> {"MCPClientInitializationError", "Exception"}
      [] c = "MCPError" -> {"MCPError", "Exception"}

\* the name Python prints for a value's type
S_type_name(v) ==
    CASE v.type = "NoneType" -> <<"N", "o", "n", "e", "T", "y", "p", "e">>
      [] v.type = "int" -> <<"i", "n", "t">>
      [] v.type = "float" -> <<"f", "l", "o", "a", "t">>
      [] v.type = "list" -> <<"l", "i", "s", "t">>
      [] v.type = "dict" -> <<"d", "i", "c", "t">>
      [] v.type = "str" -> <<"s", "t", "r">>

\* bool(v)
Truthy(v) ==
    CASE v.type = "NoneType" -> FALSE
      [] v.type = "str" -> v.chars # <<>>
      [] v.type = "int" -> v.n # 0
      [] v.type = "float" -> TRUE
      [] v.type = "dict" -> v.items # <<>>
      [] v.type = "list" -> v.elems # <<>>

(***************************************************************************)
(* handler: reading the event.                                             *)
(***************************************************************************)
\* event.get("actionGroup", ""), .get("apiPath", ""), .get("httpMethod", "POST"),
\* .get("requestBody", {})
action_group(event) == dict_get(event, PyStr(Key.actionGroup), PyStr(<<>>))
api_path(event) == dict_get(event, PyStr(Key.apiPath), PyStr(<<>>))
http_method(event) == dict_get(event, PyStr(Key.httpMethod), PyStr(S_POST))
request_body(event) == dict_get(event, PyStr(Key.requestBody), PyDict(<<>>))

\* x.get(k, default): AttributeError unless x is a dict
py_get(x, k, default) ==
    IF IsDict(x) THEN Returned(dict_get(x, k, default))
    ELSE Raised("AttributeError", <<>>)

\* request_body.get("content", {}).get("application/json", {}).get("properties", [])
properties_of(event) ==
    LET c == py_get(request_body(event), PyStr(Key.content), PyDict(<<>>))
    IN  IF c.raised THEN c
        ELSE LET a == py_get(c.value, PyStr(Key.application_json), PyDict(<<>>))
             IN  IF a.raised THEN a
                 ELSE py_get(a.value, PyStr(Key.properties), PyList(<<>>))

\* what "for prop in v" iterates over: the elements of a list, the keys of a
\* dict, the characters of a str; TypeError for a value that is not iterable
py_iter(v) ==
    CASE v.type = "list" -> Returned(v.elems)
      [] v.type = "dict" -> Returned([i \in 1..Len(v.items) |-> v.items[i][1]])
      [] v.type = "str" -> Returned([i \in 1..Len(v.chars) |-> PyStr(<<v.chars[i]>>)])
      [] OTHER -> Raised("TypeError", <<>>)

\* the loop "params[prop.get("name")] = prop.get("value")": it ends at the first
\* prop that raises (no dict, or an unhashable name), keeping what it stored
RECURSIVE extract_loop(_, _)
extract_loop(props, params) ==
    IF props = <<>> THEN params
    ELSE LET prop == Head(props)
         IN  IF ~IsDict(prop) THEN params
             ELSE LET key == dict_get(prop, PyStr(Key.name), PyNone)
                  IN  IF key.type \in {"list", "dict"} THEN params
                      ELSE extract_loop(Tail(props),
                               dict_set(params, key, dict_get(prop, PyStr(Key.value), PyNone)))

\* params after the try block of the handler: every exception is swallowed
extract_params(event) ==
    LET p == properties_of(event)
    IN  IF p.raised THEN PyDict(<<>>)
        ELSE LET it == py_iter(p.value)
             IN  IF it.raised THEN PyDict(<<>>)
                 ELSE extract_loop(it.value, PyDict(<<>>))

\* a bug: strip("/") for lstrip("/"), so that trailing slashes go too
RECURSIVE rstrip(_, _)
rstrip(s, c) == IF s # <<>> /\ s[Len(s)] = c THEN rstrip(SubSeq(s, 1, Len(s) - 1), c) ELSE s
function_name_strip(event) ==
    LET p == api_path(event)
    IN  IF ~Truthy(p) THEN Returned(<<>>)
        ELSE IF IsStr(p) THEN Returned(rstrip(lstrip(p.chars, "/"), "/"))
        ELSE Raised("AttributeError", <<>>)

\* a bug: the action group BatchTools kept to the two tools its description names
function_name_by_group(event) ==
    LET p == api_path(event)
    IN  IF ~Truthy(p) THEN Returned(<<>>)
        ELSE IF ~IsStr(p) THEN Raised("AttributeError", <<>>)
        ELSE IF /\ action_group(event) = PyStr(<<"B", "a", "t", "c", "h", "T", "o", "o", "l", "s">>)
                /\ lstrip(p.chars, "/") \notin {S_get_batch_health, S_query_influxdb}
             THEN Returned(<<>>)
        ELSE Returned(lstrip(p.chars, "/"))

\* function_name = api_path.lstrip("/") if api_path else "": outside every try
function_name(event) ==
    LET p == api_path(event)
    IN  IF ~Truthy(p) THEN Returned(<<>>)
        ELSE IF IsStr(p) THEN Returned(lstrip(p.chars, "/"))
        ELSE Raised("AttributeError", <<>>)

(***************************************************************************)
(* route_tool_call: from the function name and the parameters to the call  *)
(* of call_backend_api it makes, the dict it returns at once, or the       *)
(* exception it raises.                                                    *)
(***************************************************************************)
\* a bug: the quotes are left in place
strip_quotes_none(s) == s

\* a bug: "or" for "and", so that one quote at either end is enough
strip_quotes_either(s) ==
    IF startswith(s, "\"") \/ endswith(s, "\"") THEN SubSeq(s, 2, Len(s) - 1) ELSE s

\* lines 520-521 of encode_param: one pair of wrapping quotes removed
strip_quotes(s) ==
    IF startswith(s, "\"") /\ endswith(s, "\"") THEN SubSeq(s, 2, Len(s) - 1) ELSE s

\* encode_param(value): AttributeError for a value without startswith
encode_param(value) ==
    IF IsStr(value) THEN Returned(quote(strip_quotes(value.chars)))
    ELSE Raised("AttributeError",
                <<"'">> \o S_type_name(value) \o S_no_attribute_startswith)

\* the three outcomes of route_tool_call before the backend is involved
Call(path, method, data) == [kind |-> "call", path |-> path, method |-> method, data |-> data]
Return(v) == [kind |-> "return", value |-> v]
Raise(exc) == [kind |-> "raise", exc |-> exc]

\* a bug: the parameter looked up under a key no event carries ("Enterprise")
enterprise_call_wrong_key(prefix, params) ==
    LET enterprise == encode_param(dict_get(params,
                          PyStr(<<"E", "n", "t", "e", "r", "p", "r", "i", "s", "e">>), PyStr(S_ALL)))
    IN  IF enterprise.raised THEN Raise(enterprise.exc)
        ELSE Call(prefix \o enterprise.value, S_GET, PyNone)

\* a bug: the default taken for every falsy value, params.get("enterprise") or "ALL"
enterprise_call_or_default(prefix, params) ==
    LET value == dict_get(params, PyStr(Key.enterprise), PyNone)
        enterprise == encode_param(IF Truthy(value) THEN value ELSE PyStr(S_ALL))
    IN  IF enterprise.raised THEN Raise(enterprise.exc)
        ELSE Call(prefix \o enterprise.value, S_GET, PyNone)

\* call_backend_api(f"<prefix>{encode_param(params.get("enterprise", "ALL"))}")
enterprise_call(prefix, params) ==
    LET enterprise == encode_param(dict_get(params, PyStr(Key.enterprise), PyStr(S_ALL)))
    IN  IF enterprise.raised THEN Raise(enterprise.exc)
        ELSE Call(prefix \o enterprise.value, S_GET, PyNone)

\* a bug: the error text without the requested name
unknown_function_unnamed(fname) == Return(PyDict(<< <<PyStr(Key.error), PyStr(S_Unknown_function)>> >>))

\* the else branch: {"error": f"Unknown function: {function_name}"}
unknown_function(fname) ==
    Return(PyDict(<< <<PyStr(Key.error), PyStr(S_Unknown_function \o fname)>> >>))

\* a bug: get_batch_health built like the tools that take an enterprise
route_tool_call_batch_enterprise(fname, params) ==
    IF fname = S_get_oee_breakdown THEN enterprise_call(S_path_oee, params)
    ELSE IF fname = S_get_equipment_states THEN enterprise_call(S_path_status, params)
    ELSE IF fname = S_get_waste_by_line THEN enterprise_call(S_path_waste, params)
    ELSE IF fname = S_get_batch_health
         THEN enterprise_call(SubSeq(S_path_batch, 1, 29), params)
    ELSE IF fname = S_query_influxdb
         THEN Call(S_path_influx, S_POST,
                   PyDict(<< <<PyStr(Key.query), dict_get(params, PyStr(Key.query), PyStr(<<>>))>>,
                             <<PyStr(Key.max_rows), dict_get(params, PyStr(Key.max_rows), PyInt(1000))>> >>))
    ELSE unknown_function(fname)

\* The if/elif chain of route_tool_call.
route_tool_call(fname, params) ==
    IF fname = S_get_oee_breakdown THEN enterprise_call(S_path_oee, params)
    ELSE IF fname = S_get_equipment_states THEN enterprise_call(S_path_status, params)
    ELSE IF fname = S_get_waste_by_line THEN enterprise_call(S_path_waste, params)
    ELSE IF fname = S_get_batch_health THEN Call(S_path_batch, S_GET, PyNone)
    ELSE IF fname = S_query_influxdb
         THEN Call(S_path_influx, S_POST,
                   PyDict(<< <<PyStr(Key.query), dict_get(params, PyStr(Key.query), PyStr(<<>>))>>,
                             <<PyStr(Key.max_rows), dict_get(params, PyStr(Key.max_rows), PyInt(1000))>> >>))
    ELSE unknown_function(fname)

(***************************************************************************)
(* call_backend_api: the request it builds, and what it returns for each   *)
(* outcome of urlopen, read, decode and json.loads.                        *)
(***************************************************************************)
\* the urllib.request.Request of lines 556-568
backend_request(path, method, data) ==
    IF method = S_POST /\ Truthy(data)
    THEN [url |-> S_BACKEND_API_URL \o path, method |-> S_POST,
          data |-> PyStr(json_dumps(data)),
          headers |-> << <<S_Content_Type, Key.application_json>> >>]
    ELSE [url |-> S_BACKEND_API_URL \o path, method |-> method,
          data |-> PyNone, headers |-> <<>>]

\* a bug: the body text returned as it is, without json.loads
try_block_unparsed(outcome) ==
    IF outcome.kind = "response" THEN Returned(PyStr(outcome.body))
    ELSE [raised |-> TRUE, exc |-> outcome.exc]

\* What the with block of lines 570-572 does with the backend's answer: the
\* parsed body of a 2xx answer, or the exception urlopen, read or json.loads raise.
try_block(outcome) ==
    IF outcome.kind = "response" THEN json_loads(outcome.body)
    ELSE [raised |-> TRUE, exc |-> outcome.exc]

\* {"error": msg}
error_dict(msg) == PyDict(<< <<PyStr(Key.error), PyStr(msg)>> >>)

\* a bug: the status code left out of the text
http_error_text_no_code(exc) == S_Backend_returned \o S_colon \o exc.reason

\* f"Backend returned {e.code}: {e.reason}"
http_error_text(exc) == S_Backend_returned \o int_str(exc.code) \o S_colon \o exc.reason

\* a bug: the except clause of URLError ahead of that of its subclass HTTPError
call_backend_api_url_first(outcome) ==
    LET r == try_block(outcome)
    IN  IF ~r.raised THEN Returned(r.value)
        ELSE IF "URLError" \in Bases(r.exc.etype)
             THEN Returned(error_dict(S_Failed_to_connect \o r.exc.reason))
        ELSE IF "HTTPError" \in Bases(r.exc.etype)
             THEN Returned(error_dict(http_error_text(r.exc)))
        ELSE IF "Exception" \in Bases(r.exc.etype)
             THEN Returned(error_dict(r.exc.msg))
        ELSE r

\* The except clauses of lines 574-584, tried in order.
call_backend_api(outcome) ==
    LET r == try_block(outcome)
    IN  IF ~r.raised THEN Returned(r.value)
        ELSE IF "HTTPError" \in Bases(r.exc.etype)
             THEN Returned(error_dict(http_error_text(r.exc)))
        ELSE IF "URLError" \in Bases(r.exc.etype)
             THEN Returned(error_dict(S_Failed_to_connect \o r.exc.reason))
        ELSE IF "Exception" \in Bases(r.exc.etype)
             THEN Returned(error_dict(r.exc.msg))
        ELSE r

(***************************************************************************)
(* handler: the response it returns.                                       *)
(***************************************************************************)
\* a bug: the name looked up echoed in place of the event's apiPath
lambda_response_stripped(event, body) ==
    PyDict(<< <<PyStr(Key.messageVersion), PyStr(S_1_0)>>,
              <<PyStr(Key.response),
                PyDict(<< <<PyStr(Key.actionGroup), action_group(event)>>,
                          <<PyStr(Key.apiPath), PyStr(function_name(event).value)>>,
                          <<PyStr(Key.httpMethod), http_method(event)>>,
                          <<PyStr(Key.responseBody),
                            PyDict(<< <<PyStr(Key.application_json),
                                        PyDict(<< <<PyStr(Key.body), PyStr(body)>> >>)>> >>)>> >>)>> >>)

\* the action-group response around a body text
lambda_response(event, body) ==
    PyDict(<< <<PyStr(Key.messageVersion), PyStr(S_1_0)>>,
              <<PyStr(Key.response),
                PyDict(<< <<PyStr(Key.actionGroup), action_group(event)>>,
                          <<PyStr(Key.apiPath), api_path(event)>>,
                          <<PyStr(Key.httpMethod), http_method(event)>>,
                          <<PyStr(Key.responseBody),
                            PyDict(<< <<PyStr(Key.application_json),
                                        PyDict(<< <<PyStr(Key.body), PyStr(body)>> >>)>> >>)>> >>)>> >>)

\* a bug: no except clause around route_tool_call
handler_return_no_except(event, r) ==
    IF ~r.raised THEN Returned(lambda_response(event, json_dumps(r.value))) ELSE r

\* The try/except of lines 481-512 around route_tool_call: r is what
\* route_tool_call returned or raised.
handler_return(event, r) ==
    IF ~r.raised THEN Returned(lambda_response(event, json_dumps(r.value)))
    ELSE IF "Exception" \in Bases(r.exc.etype)
         THEN Returned(lambda_response(event, json_dumps(error_dict(r.exc.msg))))
    ELSE r

(***************************************************************************)
(* The events Bedrock sends and the answers the backend gives.             *)
(***************************************************************************)
\* a key an event or a property leaves out
Absent == [type |-> "absent"]

\* the pair of a key, unless its value is left out
Pair(k, v) == IF v = Absent THEN <<>> ELSE << <<PyStr(k), v>> >>

\* the characters of the enterprise values: a quote, a letter, a space
Alphabet == {"\"", "A", " "}

\* every string over Alphabet of at most n characters
RECURSIVE Strings(_)
Strings(n) ==
    IF n = 0 THEN {<<>>}
    ELSE {<<>>} \cup {<<c>> \o s : c \in Alphabet, s \in Strings(n - 1)}

\* {"name": name, "value": value} of the properties list
Property(name, value) == PyDict(Pair(Key.name, PyStr(name)) \o Pair(Key.value, value))

\* the values of an enterprise property: a string over Alphabet, no value at
\* all, a number, and a letter between two of the characters that mean
\* something in a URL
EnterpriseValues ==
    {PyStr(s) : s \in Strings(MaxLen)} \cup {Absent, PyInt(5)}
    \cup {PyStr(<<c, "A", d>>) : c, d \in {"&", "=", "?", "#", "/", "%"}}

\* the properties lists of the events: none; one enterprise; query and max_rows;
\* a parameter the tool does not take; a name given twice; an element that is no
\* dict, alone and ahead of an enterprise property; a property without a name
PropertyLists ==
    {<<>>}
    \cup {<<Property(Key.enterprise, v)>> : v \in EnterpriseValues}
    \cup {<<Property(Key.query, PyStr(S_SELECT))>>,
          <<Property(Key.query, PyStr(S_SELECT)), Property(Key.max_rows, PyInt(50))>>,
          <<Property(Key.max_rows, PyInt(50))>>,
          <<Property(Key.enterprise, PyStr(S_ALL)), Property(Key.query, PyStr(S_SELECT))>>,
          <<Property(Key.enterprise, PyStr(<<"A">>)), Property(Key.enterprise, PyStr(S_ALL))>>,
          <<PyStr(S_x)>>,
          <<PyStr(S_x), Property(Key.enterprise, Absent)>>,
          <<PyStr(S_x), Property(Key.enterprise, PyStr(<<"A">>))>>,
          <<PyDict(Pair(Key.value, PyStr(S_ALL)))>>}

\* {"content": {"application/json": {"properties": [...]}}}
RequestBody(props) ==
    PyDict(Pair(Key.content,
                PyDict(Pair(Key.application_json,
                            PyDict(Pair(Key.properties, PyList(props)))))))

\* properties as a mapping from the parameter's name, to the value itself or
\* to a {"value": ...} wrapper, in place of the list
PropertyMappings ==
    {PyDict(Pair(Key.enterprise, PyStr(<<"A">>))),
     PyDict(Pair(Key.enterprise, PyDict(Pair(Key.value, PyStr(<<"A">>)))))}

\* {"content": {"application/json": {"properties": {...}}}}
MappingBody(mapping) ==
    PyDict(Pair(Key.content,
                PyDict(Pair(Key.application_json, PyDict(Pair(Key.properties, mapping))))))

RequestBodies ==
    {Absent, PyNone}
    \cup {RequestBody(props) : props \in PropertyLists}
    \cup {MappingBody(mapping) : mapping \in PropertyMappings}

\* apiPath: each tool; get_oee_breakdown without a slash and with two; names that
\* resemble it (other case, a prefix, whitespace or a slash around it); no name
RoutedNames ==
    {S_get_oee_breakdown, S_get_equipment_states, S_get_waste_by_line,
     S_get_batch_health, S_query_influxdb}
ApiPaths ==
    {PyStr(<<"/">> \o n) : n \in RoutedNames}
    \cup {PyStr(S_get_oee_breakdown), PyStr(<<"/", "/">> \o S_get_oee_breakdown),
          PyStr(<<"/">> \o S_GET_OEE_BREAKDOWN), PyStr(<<"/">> \o S_get_oee),
          PyStr(<<" ", "/">> \o S_get_oee_breakdown),
          PyStr(<<"/">> \o S_get_oee_breakdown \o <<" ">>),
          PyStr(<<"/">> \o S_get_oee_breakdown \o <<"/">>),
          PyStr(<<"/">> \o S_nonexistent), PyStr(<<>>), Absent}

\* actionGroup and httpMethod: both left out, or as Bedrock fills them in
Headers == {<<Absent, Absent>>, <<PyStr(S_OEETools), PyStr(S_GET)>>}

\* The events: every header, apiPath and request body; and each tool asked for
\* in the name of the other three action groups, with POST for httpMethod.
Events ==
    {PyDict(Pair(Key.actionGroup, h[1]) \o Pair(Key.apiPath, ap) \o Pair(Key.httpMethod, h[2])
            \o Pair(Key.requestBody, rb)) :
        h \in Headers, ap \in ApiPaths, rb \in RequestBodies}
    \cup
    {PyDict(Pair(Key.actionGroup, PyStr(g)) \o Pair(Key.apiPath, PyStr(<<"/">> \o n))
            \o Pair(Key.httpMethod, PyStr(S_POST)) \o Pair(Key.requestBody, rb)) :
        g \in {<<"E", "q", "u", "i", "p", "m", "e", "n", "t", "T", "o", "o", "l", "s">>,
               <<"W", "a", "s", "t", "e", "T", "o", "o", "l", "s">>,
               <<"B", "a", "t", "c", "h", "T", "o", "o", "l", "s">>},
        n \in RoutedNames,
        rb \in {Absent, RequestBody(<<Property(Key.enterprise, PyStr(<<"A">>))>>),
                RequestBody(<<Property(Key.query, PyStr(S_SELECT))>>)}}

\* the bodies of the backend's 2xx answers: JSON texts, a text that is no JSON,
\* an empty body
Bodies == {S_json_oee, S_json_oee_compact, S_json_error_x, S_json_null, S_html, <<>>}

\* What one urlopen call ends in: a 2xx answer with a body; HTTPError for another
\* status; URLError for a refused connection or a timeout while connecting; the
\* bare socket timeout while reading the answer; the connection closed by the
\* backend before it answered.
Outcomes ==
    {[kind |-> "response", status |-> 200, body |-> b] : b \in Bodies}
    \cup {[kind |-> "exception",
           exc |-> [etype |-> "HTTPError", code |-> 503, reason |-> S_Service_Unavailable]],
          [kind |-> "exception",
           exc |-> [etype |-> "HTTPError", code |-> 404, reason |-> S_Not_Found]],
          [kind |-> "exception",
           exc |-> [etype |-> "URLError", reason |-> S_Connection_refused]],
          [kind |-> "exception",
           exc |-> [etype |-> "URLError", reason |-> S_timed_out]],
          [kind |-> "exception",
           exc |-> [etype |-> "TimeoutError", msg |-> S_timed_out]],
          [kind |-> "exception",
           exc |-> [etype |-> "RemoteDisconnected",
                    msg |-> <<"R", "e", "m", "o", "t", "e", " ", "e", "n", "d", " ",
                              "c", "l", "o", "s", "e", "d", " ", "c", "o", "n", "n", "e", "c",
                              "t", "i", "o", "n", " ", "w", "i", "t", "h", "o", "u", "t", " ",
                              "r", "e", "s", "p", "o", "n", "s", "e">>]]}

(***************************************************************************)
(* One invocation of the Lambda at a time: the handler runs up to the      *)
(* urlopen call, the backend answers, the handler returns.                 *)
(***************************************************************************)
VARIABLES
    pc,        \* "idle", "calling" (inside urlopen), "returned", "raised"
    event,     \* the event being handled
    request,   \* the request handed to urlopen
    calls,     \* urlopen calls of this invocation
    outcome,   \* what the urlopen call ended in
    result,    \* what route_tool_call returned
    response,  \* what handler returned
    raised,    \* the exception that left handler
    phase,     \* what the urlopen call waits for: "connect", "read", or "none"
    clock,     \* seconds the socket has waited without an answer
    invocations,  \* concurrent invocations: what each caller passed and received
    locals,       \* concurrent invocations: the local variables of each handler frame
    globals,      \* the module globals of the Lambda
    app,             \* agents: the agent this process runs
    MCP_SERVER_URL,  \* agents: the module global read from the environment
    apc,             \* agents: where invoke stands
    tools,           \* agents: the local variable tools of invoke
    mcp_step,        \* agents: how far the MCP connection step got, and what it listed
    sessions,        \* agents: MCP sessions opened and not closed
    agent,           \* agents: the Agent that invoke built
    stream,          \* agents: the events of the Agent's stream read so far
    yielded,         \* agents: what invoke has yielded, in order
    folder,          \* kb: the files of the knowledge-base folder
    pymupdf,         \* kb: whether the module pymupdf could be imported
    collection,      \* kb: the collection of the store: whether it exists, and its chunks
    ingested,        \* kb: how the runs of ingest on this folder ended
    retrieved        \* kb: the arguments, the store's answer and the result of retrieve

\* one invocation of the handler, seen alone
lambda == <<pc, event, request, calls, outcome, result, response, raised>>

\* not set (yet)
Nil == [type |-> "nil"]

\* the socket of the urlopen call
timer == <<phase, clock>>

\* the invocations running side by side and what they share
shared == <<invocations, locals, globals>>

\* invoke of the agents
agents == <<app, MCP_SERVER_URL, apc, tools, mcp_step, sessions, agent, stream, yielded>>

\* the knowledge base
kb == <<folder, pymupdf, collection, ingested, retrieved>>

vars == <<lambda, timer, shared, agents, kb>>

\* what the actions of each specification leave alone
OutsideLambda == <<timer, shared, agents, kb>>
OutsideTimed == <<shared, agents, kb>>
OutsideShared == <<lambda, timer, agents, kb>>
OutsideAgents == <<lambda, timer, shared, kb>>
OutsideKb == <<lambda, timer, shared, agents>>

\* callers of the handler that may be in flight together
MaxCallers == 2
Callers == 1..MaxCallers

\* a caller that is not inside the handler, and a frame that does not exist
IdleInvocation ==
    [pc |-> "idle", event |-> Nil, outcome |-> Nil, answer |-> Nil, overlapped |-> FALSE]
NoFrame == [event |-> Nil, request |-> Nil]

Init ==
    /\ pc = "idle"
    /\ event = Nil
    /\ request = Nil
    /\ calls = 0
    /\ outcome = Nil
    /\ result = Nil
    /\ response = Nil
    /\ raised = Nil
    /\ phase = "none"
    /\ clock = 0
    /\ invocations = [i \in Callers |-> IdleInvocation]
    /\ locals = [i \in Callers |-> NoFrame]
    /\ globals = [BACKEND_API_URL |-> S_BACKEND_API_URL]
    /\ app = Nil
    /\ MCP_SERVER_URL = Nil
    /\ apc = "unloaded"
    /\ tools = <<>>
    /\ mcp_step = [state |-> "none", listed |-> <<>>]
    /\ sessions = 0
    /\ agent = Nil
    /\ stream = <<>>
    /\ yielded = <<>>
    /\ folder = {}
    /\ pymupdf = TRUE
    /\ collection = [exists |-> FALSE, chunks |-> {}]
    /\ ingested = "no"
    /\ retrieved = Nil

\* handler's last step: r is what route_tool_call returned or raised
Complete(e, r) ==
    LET h == handler_return(e, r)
    IN  /\ result' = IF r.raised THEN Nil ELSE r.value
        /\ pc' = IF h.raised THEN "raised" ELSE "returned"
        /\ response' = IF h.raised THEN Nil ELSE h.value
        /\ raised' = IF h.raised THEN h.exc ELSE Nil

\* handler(event, context) up to the backend call, or to its return when
\* route_tool_call makes none
Invoke(e) ==
    /\ pc = "idle"
    /\ event' = e
    /\ LET fname == function_name(e)
       IN  IF fname.raised
           THEN /\ pc' = "raised"
                /\ raised' = fname.exc
                /\ UNCHANGED <<request, calls, outcome, result, response>>
           ELSE LET step == route_tool_call(fname.value, extract_params(e))
                IN  IF step.kind = "call"
                    THEN /\ pc' = "calling"
                         /\ request' = backend_request(step.path, step.method, step.data)
                         /\ calls' = calls + 1
                         /\ UNCHANGED <<outcome, result, response, raised>>
                    ELSE /\ Complete(e, IF step.kind = "return"
                                        THEN Returned(step.value)
                                        ELSE [raised |-> TRUE, exc |-> step.exc])
                         /\ UNCHANGED <<request, calls, outcome>>

\* urlopen ends in outcome o; call_backend_api and the handler return
Reply(o) ==
    /\ pc = "calling"
    /\ outcome' = o
    /\ Complete(event, call_backend_api(o))
    /\ UNCHANGED <<event, request, calls>>

\* the invocation is over; the Lambda takes the next event
Done ==
    /\ pc \in {"returned", "raised"}
    /\ pc' = "idle"
    /\ event' = Nil
    /\ request' = Nil
    /\ calls' = 0
    /\ outcome' = Nil
    /\ result' = Nil
    /\ response' = Nil
    /\ raised' = Nil
    /\ UNCHANGED OutsideLambda

\* Bedrock invokes the Lambda with some event
Receive ==
    /\ pc = "idle"
    /\ \E e \in Events : Invoke(e)
    /\ UNCHANGED OutsideLambda

\* a bug: a failed call is issued once more before the handler gives up
Answer_retry ==
    /\ pc = "calling"
    /\ \E o \in Outcomes :
          IF call_backend_api(o).value.type = "dict"
             /\ HasKey(call_backend_api(o).value, PyStr(Key.error)) /\ calls < 2
          THEN /\ calls' = calls + 1
               /\ UNCHANGED <<pc, event, request, outcome, result, response, raised>>
          ELSE Reply(o)
    /\ UNCHANGED OutsideLambda

\* the urlopen call ends in some outcome
Answer ==
    /\ pc = "calling"
    /\ \E o \in Outcomes : Reply(o)
    /\ UNCHANGED OutsideLambda

Next ==
    \/ Receive
    \/ Answer
    \/ Done

Spec == Init /\ [][Next]_vars

(***************************************************************************)
(* The same invocation with the socket of urlopen(req, timeout=10) in      *)
(* view: the call waits for the connection, then for the answer, and the   *)
(* socket raises once it has waited URLOPEN_TIMEOUT seconds for either.    *)
(* The backend is free never to answer.                                    *)
(***************************************************************************)
\* timeout=10 of the urlopen call
URLOPEN_TIMEOUT == 10

\* a bug: urlopen(req) without timeout, a socket that waits for ever
timeout_expired_never(waited) == FALSE

\* the socket gives up after URLOPEN_TIMEOUT seconds without an answer
timeout_expired(waited) == waited >= URLOPEN_TIMEOUT

\* What ends the wait in each phase before the timeout: the connection is
\* refused; or an answer arrives, 2xx with a body or another status, or the
\* backend closes the connection.
PhaseOutcomes(ph) ==
    IF ph = "connect"
    THEN {o \in Outcomes : o.kind = "exception" /\ o.exc.etype = "URLError"
                              /\ o.exc.reason = S_Connection_refused}
    ELSE {o \in Outcomes : o.kind = "response"
                              \/ (o.kind = "exception"
                                  /\ o.exc.etype \in {"HTTPError", "RemoteDisconnected"})}

\* What the socket timeout surfaces as: while connecting, urllib wraps it in
\* URLError; while reading the answer, the TimeoutError arrives as it is.
timeout_outcome(ph) ==
    IF ph = "connect"
    THEN [kind |-> "exception", exc |-> [etype |-> "URLError", reason |-> S_timed_out]]
    ELSE [kind |-> "exception", exc |-> [etype |-> "TimeoutError", msg |-> S_timed_out]]

\* the events of the timed specification: every apiPath, with and without
\* parameters
TimedEvents ==
    {PyDict(Pair(Key.actionGroup, h[1]) \o Pair(Key.apiPath, ap) \o Pair(Key.httpMethod, h[2])
            \o Pair(Key.requestBody, rb)) :
        h \in Headers, ap \in ApiPaths,
        rb \in {Absent,
                RequestBody(<<Property(Key.enterprise, PyStr(<<"A">>))>>),
                RequestBody(<<Property(Key.query, PyStr(S_SELECT))>>)}}

\* Bedrock invokes the Lambda; a handler that reaches urlopen starts connecting
ReceiveTimed ==
    /\ pc = "idle"
    /\ \E e \in TimedEvents : Invoke(e)
    /\ phase' = IF pc' = "calling" THEN "connect" ELSE "none"
    /\ clock' = 0
    /\ UNCHANGED OutsideTimed

\* a second passes without an answer
Tick ==
    /\ pc = "calling"
    /\ clock < URLOPEN_TIMEOUT
    /\ clock' = clock + 1
    /\ UNCHANGED <<lambda, phase, OutsideTimed>>

\* the connection is made and the request sent; the call waits for the answer
Connected ==
    /\ pc = "calling"
    /\ phase = "connect"
    /\ ~timeout_expired(clock)
    /\ phase' = "read"
    /\ clock' = 0
    /\ UNCHANGED <<lambda, OutsideTimed>>

\* the backend refuses or answers before the timeout
AnswerTimed ==
    /\ pc = "calling"
    /\ ~timeout_expired(clock)
    /\ \E o \in PhaseOutcomes(phase) : Reply(o)
    /\ phase' = "none"
    /\ clock' = 0
    /\ UNCHANGED OutsideTimed

\* the socket has waited URLOPEN_TIMEOUT seconds: urlopen or read raises
Expire ==
    /\ pc = "calling"
    /\ timeout_expired(clock)
    /\ Reply(timeout_outcome(phase))
    /\ phase' = "none"
    /\ clock' = 0
    /\ UNCHANGED OutsideTimed

NextTimed ==
    \/ ReceiveTimed
    \/ Tick
    \/ Connected
    \/ AnswerTimed
    \/ Expire
    \/ Done

\* Time passes and an expired socket raises; nothing obliges the backend to
\* answer or Bedrock to invoke.
SpecTimed == Init /\ [][NextTimed]_vars /\ WF_vars(Tick) /\ WF_vars(Expire)

(***************************************************************************)
(* Invocations side by side.  Each call of handler has its own frame of    *)
(* local variables (event, function_name, params, url, req, ...); the      *)
(* module global BACKEND_API_URL is all that the frames share.  A handler  *)
(* runs from its entry to route_tool_call, from there to urlopen, and from *)
(* the answer on its own connection to its return, and the steps of        *)
(* different invocations interleave freely.                                *)
(***************************************************************************)
\* a bug: the handler keeps its variables in module globals, one set for all
frame_of_module(i) == 1

\* the frame an invocation's local variables live in: its own
frame_of(i) == i

\* the events of the callers: three tools and a name without a route
SharedEvents ==
    {PyDict(Pair(Key.actionGroup, PyStr(S_OEETools)) \o Pair(Key.apiPath, ap[1])
            \o Pair(Key.httpMethod, PyStr(S_GET)) \o Pair(Key.requestBody, ap[2])) :
        ap \in {<<PyStr(<<"/">> \o S_get_oee_breakdown),
                  RequestBody(<<Property(Key.enterprise, PyStr(<<"A">>))>>)>>,
                <<PyStr(<<"/">> \o S_get_waste_by_line), Absent>>,
                <<PyStr(<<"/">> \o S_query_influxdb),
                  RequestBody(<<Property(Key.query, PyStr(S_SELECT))>>)>>,
                <<PyStr(<<"/">> \o S_nonexistent), Absent>>}}

\* the answers on a caller's connection: a payload, a 503, a refusal
SharedOutcomes ==
    {o \in Outcomes :
        \/ o.kind = "response" /\ o.body = S_json_oee
        \/ o.kind = "exception" /\ o.exc.etype = "HTTPError" /\ o.exc.code = 503
        \/ o.kind = "exception" /\ o.exc.etype = "URLError"
              /\ o.exc.reason = S_Connection_refused}

\* caller i is inside the handler
InFlight(i) == invocations[i].pc \in {"entered", "calling"}

\* the invocations after a step of caller i that leaves it as inv: every other
\* caller in flight has seen a step of another invocation
AfterStep(i, inv) ==
    [j \in Callers |->
        IF j = i THEN inv
        ELSE IF InFlight(j) THEN [invocations[j] EXCEPT !.overlapped = TRUE]
        ELSE invocations[j]]

\* what the caller gets from a handler that returned or raised
Delivered(h) == IF h.raised THEN h.exc ELSE h.value

\* handler(event, context) is called: the event is bound in a new frame
Enter(i, e) ==
    /\ invocations[i].pc = "idle"
    /\ invocations' = AfterStep(i, [invocations[i] EXCEPT !.pc = "entered", !.event = e])
    /\ locals' = [locals EXCEPT ![frame_of(i)] = [event |-> e, request |-> Nil]]
    /\ UNCHANGED globals

\* lines 462-482 and route_tool_call, up to urlopen or to the handler's return
Route(i) ==
    /\ invocations[i].pc = "entered"
    /\ LET frame == locals[frame_of(i)]
           fname == function_name(frame.event)
           step == route_tool_call(fname.value, extract_params(frame.event))
       IN  IF fname.raised
           THEN /\ invocations' = AfterStep(i, [invocations[i] EXCEPT
                                        !.pc = "returned", !.answer = fname.exc])
                /\ UNCHANGED locals
           ELSE IF step.kind = "call"
           THEN /\ invocations' = AfterStep(i, [invocations[i] EXCEPT !.pc = "calling"])
                /\ locals' = [locals EXCEPT ![frame_of(i)].request =
                                 [backend_request(step.path, step.method, step.data)
                                    EXCEPT !.url = globals.BACKEND_API_URL \o step.path]]
           ELSE /\ invocations' = AfterStep(i, [invocations[i] EXCEPT
                                        !.pc = "returned",
                                        !.answer = Delivered(handler_return(frame.event,
                                            IF step.kind = "return" THEN Returned(step.value)
                                            ELSE [raised |-> TRUE, exc |-> step.exc]))])
                /\ UNCHANGED locals
    /\ UNCHANGED globals

\* the connection of caller i ends in outcome o; its handler returns
Respond(i, o) ==
    /\ invocations[i].pc = "calling"
    /\ invocations' = AfterStep(i, [invocations[i] EXCEPT
                            !.pc = "returned", !.outcome = o,
                            !.answer = Delivered(handler_return(locals[frame_of(i)].event,
                                                                call_backend_api(o)))])
    /\ UNCHANGED <<locals, globals>>

\* caller i has its answer; the frame is gone
Leave(i) ==
    /\ invocations[i].pc = "returned"
    /\ invocations' = AfterStep(i, IdleInvocation)
    /\ locals' = [locals EXCEPT ![frame_of(i)] = NoFrame]
    /\ UNCHANGED globals

\* any caller may take its next step
NextShared ==
    \/ (\E i \in Callers, e \in SharedEvents : Enter(i, e)) /\ UNCHANGED OutsideShared
    \/ (\E i \in Callers : Route(i)) /\ UNCHANGED OutsideShared
    \/ (\E i \in Callers, o \in SharedOutcomes : Respond(i, o)) /\ UNCHANGED OutsideShared
    \/ (\E i \in Callers : Leave(i)) /\ UNCHANGED OutsideShared

SpecShared == Init /\ [][NextShared]_vars

(***************************************************************************)
(* invoke of the agents (agent/*/src/main.py).  chat and troubleshoot      *)
(* differ in the client they import and in what they yield; their steps    *)
(* up to the Agent are the same: a step of the try block either succeeds   *)
(* or raises, and what it raises meets "except Exception: pass".           *)
(* edgemindassistant opens its MCP session in a with statement, anomaly    *)
(* has none.  All four then pass on the events of the Agent's stream.      *)
(***************************************************************************)
\* tools an MCP server lists, and the longest list considered
McpToolNames == {"get_oee_breakdown", "get_equipment_states", "query_influxdb"}
MaxTools == 2

\* MCP sessions a process may hold open
MaxSessions == 2

\* the longest stream considered
MaxStream == 2

\* the lists list_tools_sync may return: no tool listed twice
ToolLists ==
    UNION {{ts \in [1..n -> McpToolNames] : \A i, j \in 1..n : ts[i] = ts[j] => i = j} :
              n \in 0..MaxTools}

\* what each step of the try block may raise
StepErrors ==
    [import |-> "ModuleNotFoundError", open |-> "MCPClientInitializationError", list |-> "MCPError"]

\* The events of an Agent's stream: a text chunk (two texts, to tell their
\* order); data that is no str; an event without data; a tool use with a name
\* along with a text chunk; a tool use whose name is empty; one without a name.
StreamEvents ==
    {PyDict(Pair(Key.data, PyStr(<<"A">>))),
     PyDict(Pair(Key.data, PyStr(<<"B">>))),
     PyDict(Pair(Key.data, PyInt(5))),
     PyDict(<<>>),
     PyDict(Pair(Key.current_tool_use, PyDict(Pair(Key.name, PyStr(S_get_oee))))
            \o Pair(Key.data, PyStr(<<"A">>))),
     PyDict(Pair(Key.current_tool_use, PyDict(Pair(Key.name, PyStr(<<>>))))
            \o Pair(Key.data, PyStr(<<"B">>))),
     PyDict(Pair(Key.current_tool_use, PyDict(<<>>)))}

\* a bug: data yielded whatever its type
text_chunk_untyped(ev) ==
    IF HasKey(ev, PyStr(Key.data)) THEN <<Lookup(ev, PyStr(Key.data))>> ELSE <<>>

\* if "data" in event and isinstance(event["data"], str): yield event["data"]
text_chunk(ev) ==
    IF HasKey(ev, PyStr(Key.data)) /\ IsStr(Lookup(ev, PyStr(Key.data)))
    THEN <<Lookup(ev, PyStr(Key.data))>>
    ELSE <<>>

\* if "current_tool_use" in event: tool_info = event["current_tool_use"];
\* if tool_info.get("name"): yield {"type": "tool_use", "name": tool_info["name"]}
tool_use_item(ev) ==
    IF /\ HasKey(ev, PyStr(Key.current_tool_use))
       /\ Truthy(dict_get(Lookup(ev, PyStr(Key.current_tool_use)), PyStr(Key.name), PyNone))
    THEN <<PyDict(<< <<PyStr(Key.type), PyStr(Key.tool_use)>>,
                     <<PyStr(Key.name),
                       Lookup(Lookup(ev, PyStr(Key.current_tool_use)), PyStr(Key.name))>> >>)>>
    ELSE <<>>

\* a bug: the tools of the MCP server in place of the local ones
with_mcp_tools_only(listed) == listed

\* tools = [*mcp_client.list_tools_sync(), retrieve]
with_mcp_tools(listed) == listed \o <<"retrieve">>

\* "except Exception: pass" met by an exception of class c raised in step s:
\* invoke goes on to build the Agent, or the exception leaves invoke
Fallback(s, c) ==
    /\ apc' = IF "Exception" \in Bases(c) THEN "build" ELSE "raised"
    /\ mcp_step' = [mcp_step EXCEPT !.state = s \o " failed"]

\* the module is imported: MCP_SERVER_URL = os.environ.get("MCP_SERVER_URL", "")
AgentLoad(a, url) ==
    /\ apc = "unloaded"
    /\ app' = a
    /\ MCP_SERVER_URL' = url
    /\ apc' = "ready"
    /\ UNCHANGED <<tools, mcp_step, sessions, agent, stream, yielded>>

\* invoke of chat and troubleshoot is called: tools = [retrieve]; if MCP_SERVER_URL: ...
AgentStart ==
    /\ apc = "ready"
    /\ app \in {"chat", "troubleshoot"}
    /\ sessions < MaxSessions
    /\ tools' = <<"retrieve">>
    /\ agent' = Nil
    /\ IF MCP_SERVER_URL # ""
       THEN apc' = "import" /\ mcp_step' = [state |-> "started", listed |-> <<>>]
       ELSE apc' = "build" /\ mcp_step' = [state |-> "skipped", listed |-> <<>>]
    /\ UNCHANGED <<app, MCP_SERVER_URL, sessions, stream, yielded>>

\* the two imports and MCPClient(...) of the try block
McpImport(ok) ==
    /\ apc = "import"
    /\ IF ok THEN apc' = "open" /\ UNCHANGED mcp_step
       ELSE Fallback("import", StepErrors.import)
    /\ UNCHANGED <<app, MCP_SERVER_URL, tools, sessions, agent, stream, yielded>>

\* mcp_client.__enter__(): the session is opened, or the call raises
McpOpen(ok) ==
    /\ apc = "open"
    /\ IF ok THEN apc' = "list" /\ sessions' = sessions + 1 /\ UNCHANGED mcp_step
       ELSE Fallback("open", StepErrors.open) /\ UNCHANGED sessions
    /\ UNCHANGED <<app, MCP_SERVER_URL, tools, agent, stream, yielded>>

\* mcp_client.list_tools_sync() returns listed, or raises
McpListTools(ok, listed) ==
    /\ apc = "list"
    /\ IF ok
       THEN /\ tools' = with_mcp_tools(listed)
            /\ apc' = "build"
            /\ mcp_step' = [state |-> "listed", listed |-> listed]
       ELSE Fallback("list", StepErrors.list) /\ UNCHANGED tools
    /\ UNCHANGED <<app, MCP_SERVER_URL, sessions, agent, stream, yielded>>

\* agent = Agent(model=load_model(), tools=tools, system_prompt=SYSTEM_PROMPT);
\* stream = agent.stream_async(...)
AgentBuild ==
    /\ apc = "build"
    /\ agent' = [tools |-> tools]
    /\ apc' = "streaming"
    /\ stream' = <<>>
    /\ yielded' = <<>>
    /\ UNCHANGED <<app, MCP_SERVER_URL, tools, mcp_step, sessions>>

\* invoke of anomaly up to its loop: Agent(tools=[]), agent.stream_async(...)
AnomalyInvoke ==
    /\ apc = "ready"
    /\ app = "anomaly"
    /\ tools' = <<>>
    /\ agent' = [tools |-> <<>>]
    /\ mcp_step' = [state |-> "skipped", listed |-> <<>>]
    /\ apc' = "streaming"
    /\ stream' = <<>>
    /\ yielded' = <<>>
    /\ UNCHANGED <<app, MCP_SERVER_URL, sessions>>

\* invoke of edgemindassistant up to "with mcp_client:": the session is
\* opened, or __enter__ raises and the exception leaves invoke
AssistantInvoke(ok) ==
    /\ apc = "ready"
    /\ app = "edgemindassistant"
    /\ sessions < MaxSessions
    /\ tools' = <<>>
    /\ agent' = Nil
    /\ IF ok
       THEN /\ sessions' = sessions + 1
            /\ apc' = "entered"
            /\ mcp_step' = [state |-> "started", listed |-> <<>>]
       ELSE /\ apc' = "ready"
            /\ mcp_step' = [state |-> "open failed", listed |-> <<>>]
            /\ UNCHANGED sessions
    /\ UNCHANGED <<app, MCP_SERVER_URL, stream, yielded>>

\* inside the with block: list_tools_sync(), Agent(tools=[*mcp_tools, retrieve]),
\* agent.stream_async(...); an exception of list_tools_sync leaves the with
\* block, which closes the session, and then invoke
AssistantList(ok, listed) ==
    /\ apc = "entered"
    /\ IF ok
       THEN /\ tools' = with_mcp_tools(listed)
            /\ agent' = [tools |-> with_mcp_tools(listed)]
            /\ mcp_step' = [state |-> "listed", listed |-> listed]
            /\ apc' = "streaming"
            /\ stream' = <<>>
            /\ yielded' = <<>>
            /\ UNCHANGED sessions
       ELSE /\ sessions' = sessions - 1
            /\ apc' = "ready"
            /\ mcp_step' = [state |-> "list failed", listed |-> <<>>]
            /\ UNCHANGED <<tools, agent, stream, yielded>>
    /\ UNCHANGED <<app, MCP_SERVER_URL>>

\* one turn of "async for event in stream": the Agent streams ev, and invoke
\* yields for it, chat the tool use ahead of the text
AgentYield(ev) ==
    /\ apc = "streaming"
    /\ Len(stream) < MaxStream
    /\ stream' = Append(stream, ev)
    /\ yielded' = yielded \o (IF app = "chat" THEN tool_use_item(ev) ELSE <<>>)
                           \o text_chunk(ev)
    /\ UNCHANGED <<app, MCP_SERVER_URL, apc, tools, mcp_step, sessions, agent>>

\* invoke ends, its locals are gone: the stream is exhausted, or it raised and
\* the exception leaves invoke.  Leaving the with block of edgemindassistant
\* closes its session; the other agents have nothing that closes theirs.
AgentReturn ==
    /\ apc = "streaming"
    /\ apc' = "ready"
    /\ tools' = <<>>
    /\ agent' = Nil
    /\ mcp_step' = [state |-> "none", listed |-> <<>>]
    /\ stream' = <<>>
    /\ yielded' = <<>>
    /\ sessions' = IF app = "edgemindassistant" THEN sessions - 1 ELSE sessions
    /\ UNCHANGED <<app, MCP_SERVER_URL>>

NextAgents ==
    \/ (\E a \in {"chat", "troubleshoot"}, url \in {"", "https://gateway/mcp"} : AgentLoad(a, url))
          /\ UNCHANGED OutsideAgents
    \/ AgentLoad("anomaly", "") /\ UNCHANGED OutsideAgents
    \/ AgentLoad("edgemindassistant", "http://localhost:8000/mcp") /\ UNCHANGED OutsideAgents
    \/ AgentStart /\ UNCHANGED OutsideAgents
    \/ (\E ok \in BOOLEAN : McpImport(ok)) /\ UNCHANGED OutsideAgents
    \/ (\E ok \in BOOLEAN : McpOpen(ok)) /\ UNCHANGED OutsideAgents
    \/ (\E ok \in BOOLEAN, listed \in ToolLists : McpListTools(ok, listed))
          /\ UNCHANGED OutsideAgents
    \/ AgentBuild /\ UNCHANGED OutsideAgents
    \/ AnomalyInvoke /\ UNCHANGED OutsideAgents
    \/ (\E ok \in BOOLEAN : AssistantInvoke(ok)) /\ UNCHANGED OutsideAgents
    \/ (\E ok \in BOOLEAN, listed \in ToolLists : AssistantList(ok, listed))
          /\ UNCHANGED OutsideAgents
    \/ (\E ev \in StreamEvents : AgentYield(ev)) /\ UNCHANGED OutsideAgents
    \/ AgentReturn /\ UNCHANGED OutsideAgents

SpecAgents == Init /\ [][NextAgents]_vars

(***************************************************************************)
(* The knowledge base: ingest of Deployment Scripts/scripts/ingest_kb.py   *)
(* fills a ChromaDB collection from the files of a folder, retrieve of     *)
(* agent/chat/src/tools/local_kb.py queries it.  A file is its stem, its   *)
(* suffix and, for a PDF, the texts of its pages; a chunk of the           *)
(* collection is an id, a document and a metadata record.  Scores are      *)
(* fractions [num, den], compared by cross-multiplication.                 *)
(***************************************************************************)
\* the largest max_results a caller asks for
MaxResults == 2

\* The files a folder may hold: a PDF with a page of text, a blank page and a
\* page with blanks around its text; two images of one stem; an image whose
\* stem has "_" and "-"; a file that is neither.
KbFiles ==
    {[stem |-> <<"a">>, suffix |-> <<".", "P", "D", "F">>,
      pages |-> << <<"A">>, <<" ">>, <<" ", "B", " ">> >>],
     [stem |-> <<"b">>, suffix |-> <<".", "p", "n", "g">>, pages |-> <<>>],
     [stem |-> <<"b">>, suffix |-> <<".", "j", "p", "g">>, pages |-> <<>>],
     [stem |-> <<"c", "_", "d", "-", "e">>, suffix |-> <<".", "j", "p", "e", "g">>, pages |-> <<>>],
     [stem |-> <<"n">>, suffix |-> <<".", "t", "x", "t">>, pages |-> <<>>]}

\* extract_pdf_text(path): nothing without pymupdf; else one (text, meta) per
\* page whose stripped text is not empty, the pages counted from 1
extract_pdf_text(installed, path) ==
    IF ~installed THEN <<>>
    ELSE LET chunk(k) ==
                 LET i == k - 1
                 IN  [text |-> rstrip(lstrip(path.pages[k], " "), " "),
                      meta |-> [source |-> path.stem \o path.suffix, page |-> i + 1,
                                type |-> "pdf"]]
         IN  SelectSeq([k \in 1..Len(path.pages) |-> chunk(k)], LAMBDA c : c.text # <<>>)

\* extract_image_text(path): the stem with "_" and "-" turned into spaces
extract_image_text(path) ==
    LET name_text == [i \in 1..Len(path.stem) |->
                         IF path.stem[i] \in {"_", "-"} THEN " " ELSE path.stem[i]]
    IN  << [text |-> <<"P", "r", "o", "c", "e", "s", "s", " ", "d", "i", "a", "g", "r", "a", "m", ":", " ">>
                      \o name_text,
            meta |-> [source |-> path.stem \o path.suffix, type |-> "image"]] >>

\* What the loop over KB_PATH.iterdir() appends for one file: the id, document
\* and metadata of each of its chunks.
file_entries(installed, path) ==
    LET lower(c) == CASE c = "P" -> "p" [] c = "D" -> "d" [] c = "F" -> "f" [] OTHER -> c
        suffix == [i \in 1..Len(path.suffix) |-> lower(path.suffix[i])]
    IN  IF suffix = <<".", "p", "d", "f">>
        THEN LET chunks == extract_pdf_text(installed, path)
             IN  {[id |-> path.stem \o <<"_", "p">> \o int_str(chunks[k].meta.page),
                   document |-> chunks[k].text,
                   metadata |-> chunks[k].meta] : k \in 1..Len(chunks)}
        ELSE IF suffix \in {<<".", "p", "n", "g">>, <<".", "j", "p", "g">>, <<".", "j", "p", "e", "g">>}
        THEN LET chunks == extract_image_text(path)
             IN  {[id |-> path.stem, document |-> chunks[k].text, metadata |-> chunks[k].meta] :
                     k \in 1..Len(chunks)}
        ELSE {}

\* a bug: the collection kept and added to, get_or_create_collection with no delete
Ingest_keep ==
    LET entries == UNION {file_entries(pymupdf, path) : path \in folder}
        unique == \A a, b \in entries \cup collection.chunks : a.id = b.id => a = b
    IN  /\ collection' = [exists |-> TRUE,
                          chunks |-> IF unique THEN collection.chunks \cup entries
                                     ELSE collection.chunks]
        /\ ingested' = IF ~unique THEN "failed"
                       ELSE IF ingested \in {"once", "again"} THEN "again" ELSE "once"
        /\ retrieved' = Nil
        /\ UNCHANGED <<folder, pymupdf>>

\* ingest(): the collection deleted if it is there and created anew, the
\* chunks of every file gathered and added in one call, which raises when two
\* of them have one id; without any chunk nothing is added.
Ingest ==
    LET entries == UNION {file_entries(pymupdf, path) : path \in folder}
        unique == \A a, b \in entries : a.id = b.id => a = b
    IN  /\ collection' = [exists |-> TRUE, chunks |-> IF unique THEN entries ELSE {}]
        /\ ingested' = IF ~unique THEN "failed"
                       ELSE IF ingested \in {"once", "again"} THEN "again" ELSE "once"
        /\ retrieved' = Nil
        /\ UNCHANGED <<folder, pymupdf>>

\* Between calls: the folder is given the files fs, pymupdf is installed or
\* not, and the collection is dropped or holds what somebody else put there.
KbEnvironment(fs, installed, before) ==
    /\ retrieved = Nil
    /\ folder' = fs
    /\ pymupdf' = installed
    /\ collection' = before
    /\ ingested' = "no"
    /\ retrieved' = Nil

\* What collection.query(query_texts=[query], n_results=n, include=[...]) may
\* answer over chunks: the n nearest chunks, or all when there are fewer, each
\* once, by growing distance; the distances are those of the query's embedding.
QueryResults(chunks, n) ==
    LET size == IF Cardinality(chunks) < n THEN Cardinality(chunks) ELSE n
    IN  {[documents |-> [i \in 1..size |-> hits[i].document],
          metadatas |-> [i \in 1..size |-> hits[i].metadata],
          distances |-> distances] :
            hits \in {h \in [1..size -> chunks] : \A i, j \in 1..size : h[i] = h[j] => i = j},
            distances \in {d \in [1..size -> {0, 1, 3}] : \A i, j \in 1..size : i <= j => d[i] <= d[j]}}

\* a bug: the score compared with > in place of >=
retrieve_strict(results, min_score) ==
    LET doc(k) == [content |-> results.documents[k],
                   score |-> [num |-> 1, den |-> 1 + results.distances[k]],
                   metadata |-> results.metadatas[k]]
    IN  SelectSeq([k \in 1..Len(results.documents) |-> doc(k)],
                  LAMBDA d : d.score.num * min_score.den > min_score.num * d.score.den)

\* The loop of retrieve over results["documents"][0]: score = 1 / (1 + distance),
\* and the doc appended when score >= min_score.
retrieve(results, min_score) ==
    LET doc(k) == [content |-> results.documents[k],
                   score |-> [num |-> 1, den |-> 1 + results.distances[k]],
                   metadata |-> results.metadatas[k]]
    IN  SelectSeq([k \in 1..Len(results.documents) |-> doc(k)],
                  LAMBDA d : d.score.num * min_score.den >= min_score.num * d.score.den)

\* retrieve(query, max_results, min_score): get_or_create_collection, the query
\* answered with results, and the docs returned; retrieved keeps the call
\* until the next run of ingest or change of the environment
Retrieve(max_results, min_score, results) ==
    /\ retrieved = Nil
    /\ collection' = [collection EXCEPT !.exists = TRUE]
    /\ retrieved' = [max_results |-> max_results, min_score |-> min_score,
                     results |-> results, docs |-> retrieve(results, min_score)]
    /\ UNCHANGED <<folder, pymupdf, ingested>>

NextKb ==
    \/ (\E fs \in SUBSET KbFiles, installed \in BOOLEAN,
           before \in {[exists |-> FALSE, chunks |-> {}], [exists |-> TRUE, chunks |-> {}],
                       [exists |-> TRUE,
                        chunks |-> {[id |-> <<"a", "_", "p", "1">>, document |-> <<"o", "l", "d">>,
                                     metadata |-> [source |-> <<"z", ".", "p", "d", "f">>,
                                                   page |-> 1, type |-> "pdf"]]}]} :
           KbEnvironment(fs, installed, before))
          /\ UNCHANGED OutsideKb
    \/ Ingest /\ UNCHANGED OutsideKb
    \/ (retrieved = Nil /\ \E max_results \in 1..MaxResults,
           min_score \in {[num |-> 0, den |-> 1], [num |-> 1, den |-> 4],
                          [num |-> 1, den |-> 2], [num |-> 1, den |-> 1]} :
           \E results \in QueryResults(collection.chunks, max_results) :
              Retrieve(max_results, min_score, results))
          /\ UNCHANGED OutsideKb

SpecKb == Init /\ [][NextKb]_vars

(***************************************************************************)
(* What the properties below read off a state.                             *)
(***************************************************************************)
\* the handler is past its return or raise
Finished == pc \in {"returned", "raised"}

\* the characters of the event's apiPath ("" when it has none)
PathChars == api_path(event).chars

\* the name the handler derives from apiPath
FName == lstrip(PathChars, "/")

\* the parameters the handler extracts from the event
Params == extract_params(event)

\* s begins with p
IsPrefix(p, s) == Len(p) <= Len(s) /\ SubSeq(s, 1, Len(p)) = p

\* s contains t
Contains(s, t) == \E i \in 0..(Len(s) - Len(t)) : SubSeq(s, i + 1, i + Len(t)) = t

\* the body text of a handler response
BodyOf(resp) ==
    Lookup(Lookup(Lookup(Lookup(resp, PyStr(Key.response)), PyStr(Key.responseBody)),
                  PyStr(Key.application_json)), PyStr(Key.body))

\* result is {"error": <str>} and nothing else
IsErrorDict(v) ==
    /\ IsDict(v)
    /\ Len(v.items) = 1
    /\ v.items[1][1] = PyStr(Key.error)
    /\ IsStr(v.items[1][2])

(***************************************************************************)
(* C1.  Whatever the event and whatever the backend call ends in (unknown  *)
(* tool, missing or ill-typed parameter, refused connection, timeout,      *)
(* non-2xx status, body that is no JSON), the handler returns a response   *)
(* of the action-group shape: messageVersion "1.0" and a str body under    *)
(* response.responseBody["application/json"]; no exception leaves it.      *)
(***************************************************************************)
C1_HandlerAlwaysReturns ==
    /\ pc # "raised"
    /\ raised = Nil
    /\ pc = "returned" =>
          /\ IsDict(response)
          /\ dict_get(response, PyStr(Key.messageVersion), PyNone) = PyStr(S_1_0)
          /\ IsStr(BodyOf(response))
          /\ BodyOf(response).chars # <<>>

\* route_tool_call raised on an ill-typed enterprise and the handler answered
C1_Witness ==
    /\ pc = "returned"
    /\ result = Nil
    /\ HasKey(Params, PyStr(Key.enterprise))
    /\ ~IsStr(Lookup(Params, PyStr(Key.enterprise)))
    /\ Contains(BodyOf(response).chars, S_no_attribute_startswith)

\* the name the event asks for has no branch in route_tool_call
UnknownName == event # Nil /\ FName \notin RoutedNames

(***************************************************************************)
(* C2 as stated.  A name without a route yields exactly                    *)
(* {success: false, error: "unknown tool: <name>"}, no backend call and no *)
(* exception.                                                              *)
(***************************************************************************)
C2_AsStated ==
    (Finished /\ UnknownName) =>
        /\ pc = "returned"
        /\ calls = 0
        /\ result = PyDict(<< <<PyStr(<<"s", "u", "c", "c", "e", "s", "s">>), [type |-> "bool", b |-> FALSE]>>,
                              <<PyStr(Key.error),
                                PyStr(<<"u", "n", "k", "n", "o", "w", "n", " ", "t", "o", "o", "l", ":", " ">> \o FName)>> >>)

(***************************************************************************)
(* C2 as amended.  A name without a route yields exactly                   *)
(* {"error": "Unknown function: <name>"}, where <name> is apiPath without  *)
(* its leading slashes; the response body is that dict serialized; no      *)
(* backend call is issued and no exception leaves the handler.             *)
(***************************************************************************)
C2_UnknownFunction ==
    (Finished /\ UnknownName) =>
        /\ pc = "returned"
        /\ calls = 0
        /\ request = Nil
        /\ IsErrorDict(result)
        /\ result.items[1][2].chars = S_Unknown_function \o FName
        /\ BodyOf(response).chars = json_dumps(result)

\* "/nonexistent" was answered
C2_Witness ==
    /\ pc = "returned"
    /\ FName = S_nonexistent
    /\ IsErrorDict(result)
    /\ Contains(result.items[1][2].chars, S_nonexistent)


\* k slashes
Slashes(k) == [i \in 1..k |-> "/"]

\* the routed names apiPath spells after k leading slashes, for some k >= 0
MatchedNames ==
    {n \in RoutedNames : \E k \in 0..Len(PathChars) : PathChars = Slashes(k) \o n}

\* the path each tool is configured with
PathFor(n) ==
    CASE n = S_get_oee_breakdown -> <<"/", "a", "p", "i", "/", "o", "e", "e", "/", "v", "2">>
      [] n = S_get_equipment_states -> <<"/", "a", "p", "i", "/", "f", "a", "c", "t", "o", "r", "y", "/", "s", "t", "a", "t", "u", "s">>
      [] n = S_get_waste_by_line -> <<"/", "a", "p", "i", "/", "w", "a", "s", "t", "e", "/", "b", "r", "e", "a", "k", "d", "o", "w", "n">>
      [] n = S_get_batch_health -> <<"/", "a", "p", "i", "/", "b", "a", "t", "c", "h", "/", "h", "e", "a", "l", "t", "h">>
      [] n = S_query_influxdb -> <<"/", "a", "p", "i", "/", "i", "n", "f", "l", "u", "x", "/", "q", "u", "e", "r", "y">>

\* the request goes to path p of the backend: the URL is the base URL, then p,
\* then nothing or a query string
GoesTo(req, p) ==
    LET u == S_BACKEND_API_URL \o p
    IN  /\ IsPrefix(u, req.url)
        /\ (Len(req.url) = Len(u) \/ req.url[Len(u) + 1] = "?")

\* the handler answered "Unknown function: ..." without a backend call
RejectedAsUnknown ==
    /\ pc = "returned"
    /\ calls = 0
    /\ IsErrorDict(result)
    /\ IsPrefix(S_Unknown_function, result.items[1][2].chars)

(***************************************************************************)
(* C3 as stated.  Lookup is an exact match: an apiPath selects a route     *)
(* only when it is a routed name, alone or after its one leading slash; a  *)
(* name with extra leading slashes selects none.                           *)
(***************************************************************************)
C3_AsStated ==
    (pc \in {"calling", "returned"} /\ calls > 0) =>
        \E n \in RoutedNames : PathChars \in {n, <<"/">> \o n}

(***************************************************************************)
(* C3 as amended.  The name looked up is apiPath with all its leading      *)
(* slashes removed, and lookup is an exact match on it: an apiPath that    *)
(* spells a routed name after zero or more slashes selects that name's     *)
(* route and no other; every other apiPath (a prefix of a routed name,     *)
(* another case, whitespace or a slash around it, no name) is rejected as  *)
(* an unknown function without a backend call.                             *)
(***************************************************************************)
C3_ExactMatchAfterSlashes ==
    pc # "idle" =>
        /\ Cardinality(MatchedNames) <= 1
        /\ MatchedNames = {} => (pc = "returned" /\ RejectedAsUnknown)
        /\ \A n \in MatchedNames :
              /\ ~RejectedAsUnknown
              /\ calls > 0 =>
                    /\ calls = 1
                    /\ \A m \in RoutedNames : GoesTo(request, PathFor(m)) <=> m = n

\* "//get_oee_breakdown" selected the route of get_oee_breakdown
C3_Witness ==
    /\ pc = "calling"
    /\ PathChars = <<"/", "/">> \o S_get_oee_breakdown
    /\ GoesTo(request, PathFor(S_get_oee_breakdown))

\* an apiPath with a trailing slash was rejected
C3_WitnessRejected ==
    /\ RejectedAsUnknown
    /\ PathChars = <<"/">> \o S_get_oee_breakdown \o <<"/">>

\* the enterprise parameter, when the event carries one, is a str
ValidParams ==
    HasKey(Params, PyStr(Key.enterprise)) => IsStr(Lookup(Params, PyStr(Key.enterprise)))

(***************************************************************************)
(* C4.  A dispatch of a routed tool name n with valid parameters issues    *)
(* exactly one backend call, and the call goes to the path configured for  *)
(* n: /api/oee/v2, /api/factory/status, /api/waste/breakdown,              *)
(* /api/batch/health, /api/influx/query.                                   *)
(***************************************************************************)
C4_OneCallToConfiguredPath ==
    (pc # "idle" /\ FName \in RoutedNames /\ ValidParams) =>
        /\ pc \in {"calling", "returned"}
        /\ calls = 1
        /\ GoesTo(request, PathFor(FName))

\* get_waste_by_line was dispatched and answered
C4_Witness ==
    /\ pc = "returned"
    /\ FName = S_get_waste_by_line
    /\ ValidParams
    /\ calls = 1
    /\ outcome.kind = "response"


\* the backend call of this invocation ended in a 2xx answer with a JSON body
SuccessfulCall ==
    /\ outcome # Nil
    /\ outcome.kind = "response"
    /\ ~json_loads(outcome.body).raised

\* v is a dict with the key k
Carries(v, k) == IsDict(v) /\ HasKey(v, PyStr(k))

(***************************************************************************)
(* C5.  The result of a dispatch tells success from failure: the result of *)
(* a successful backend call (2xx, JSON body) never carries error, the     *)
(* result of a failed one carries error and never body, whatever JSON the  *)
(* backend returned.                                                       *)
(***************************************************************************)
C5_BodyXorError ==
    (pc = "returned" /\ outcome # Nil) =>
        IF SuccessfulCall
        THEN ~Carries(result, Key.error)
        ELSE Carries(result, Key.error) /\ ~Carries(result, Key.body)

(***************************************************************************)
(* C6.  When query_influxdb is invoked without its required parameter      *)
(* query, the dispatch issues no backend call and returns an error that    *)
(* names the parameter.                                                    *)
(***************************************************************************)
C6_MissingRequiredParameter ==
    (pc # "idle" /\ FName = S_query_influxdb /\ ~HasKey(Params, PyStr(Key.query))) =>
        /\ calls = 0
        /\ pc = "returned" =>
              /\ IsErrorDict(result)
              /\ Contains(result.items[1][2].chars, Key.query)

\* the tools that take the enterprise parameter
EnterpriseTools == {S_get_oee_breakdown, S_get_equipment_states, S_get_waste_by_line}

\* the URL of a request for an enterprise tool with the encoded value e:
\* <base URL><path>?enterprise=<e>
EnterpriseUrl(n, e) ==
    S_BACKEND_API_URL \o PathFor(n) \o <<"?">> \o Key.enterprise \o <<"=">> \o e

(***************************************************************************)
(* C7.  A missing optional parameter is sent with its default, enterprise  *)
(* = ALL for get_oee_breakdown, get_equipment_states and get_waste_by_line *)
(* and max_rows = 1000 for query_influxdb; a supplied one is sent with the *)
(* supplied value (enterprise unwrapped and percent-encoded, max_rows as   *)
(* it is).                                                                 *)
(***************************************************************************)
C7_DefaultsForMissingOptionals ==
    (pc \in {"calling", "returned"} /\ calls = 1) =>
        /\ FName \in EnterpriseTools =>
              IF HasKey(Params, PyStr(Key.enterprise))
              THEN /\ IsStr(Lookup(Params, PyStr(Key.enterprise)))
                   /\ request.url = EnterpriseUrl(FName,
                          quote(strip_quotes(Lookup(Params, PyStr(Key.enterprise)).chars)))
              ELSE request.url = EnterpriseUrl(FName, <<"A", "L", "L">>)
        /\ FName = S_query_influxdb =>
              /\ request.method = S_POST
              /\ request.data =
                    PyStr(json_dumps(PyDict(
                        << <<PyStr(Key.query), dict_get(Params, PyStr(Key.query), PyStr(<<>>))>>,
                           <<PyStr(Key.max_rows),
                             IF HasKey(Params, PyStr(Key.max_rows))
                             THEN Lookup(Params, PyStr(Key.max_rows))
                             ELSE PyInt(1000)>> >>)))
              /\ ~HasKey(Params, PyStr(Key.max_rows)) =>
                    Contains(request.data.chars,
                             <<"\"", "m", "a", "x", "_", "r", "o", "w", "s", "\"", ":", " ", "1", "0", "0", "0", "}">>)

\* query_influxdb without max_rows is on its way with max_rows 1000
C7_Witness ==
    /\ pc = "calling"
    /\ FName = S_query_influxdb
    /\ HasKey(Params, PyStr(Key.query))
    /\ ~HasKey(Params, PyStr(Key.max_rows))
    /\ Contains(request.data.chars, <<"1", "0", "0", "0">>)

\* get_equipment_states without enterprise is on its way with enterprise=ALL
C7_WitnessEnterprise ==
    /\ pc = "calling"
    /\ FName = S_get_equipment_states
    /\ ~HasKey(Params, PyStr(Key.enterprise))
    /\ request.url = EnterpriseUrl(S_get_equipment_states, S_ALL)

\* s is wrapped in a pair of double quotes
QuoteWrapped(s) == Len(s) >= 2 /\ s[1] = "\"" /\ s[Len(s)] = "\""

\* the event carries a str enterprise value for an enterprise tool
HasEnterpriseStr ==
    /\ event # Nil
    /\ FName \in EnterpriseTools
    /\ HasKey(Params, PyStr(Key.enterprise))
    /\ IsStr(Lookup(Params, PyStr(Key.enterprise)))

\* that value
EnterpriseChars == Lookup(Params, PyStr(Key.enterprise)).chars

(***************************************************************************)
(* C8.  An enterprise value wrapped in double quotes is sent as the        *)
(* percent-encoding of the value without its wrapping quotes ("A" in       *)
(* quotes is sent as A), and the URL holds no quote character.             *)
(***************************************************************************)
C8_WrappingQuotesStripped ==
    (pc \in {"calling", "returned"} /\ HasEnterpriseStr /\ QuoteWrapped(EnterpriseChars)) =>
        /\ request.url = EnterpriseUrl(FName,
                             quote(SubSeq(EnterpriseChars, 2, Len(EnterpriseChars) - 1)))
        /\ \A i \in 1..Len(request.url) : request.url[i] # "\""
        /\ EnterpriseChars = <<"\"", "A", "\"">> => request.url = EnterpriseUrl(FName, <<"A">>)

\* "A" in quotes is on its way as A
C8_Witness ==
    /\ pc = "calling"
    /\ HasEnterpriseStr
    /\ EnterpriseChars = <<"\"", "A", "\"">>
    /\ request.url = EnterpriseUrl(FName, <<"A">>)

\* s begins and ends with a double quote (a lone quote does both)
QuoteAtBothEnds(s) == Len(s) >= 1 /\ s[1] = "\"" /\ s[Len(s)] = "\""

(***************************************************************************)
(* C9 as stated.  Quote-stripping is idempotent: strip(strip(v)) =         *)
(* strip(v) for every string v.                                            *)
(***************************************************************************)
C9_AsStated ==
    HasEnterpriseStr =>
        strip_quotes(strip_quotes(EnterpriseChars)) = strip_quotes(EnterpriseChars)

(***************************************************************************)
(* C9 as amended.  Quote-stripping removes one layer: a value that does    *)
(* not both begin and end with a quote is returned unchanged, and          *)
(* strip(strip(v)) = strip(v) exactly when strip(v) does not itself begin  *)
(* and end with a quote; that covers the empty string, a lone quote and a  *)
(* singly-wrapped value, and excludes the doubly-wrapped ones.             *)
(***************************************************************************)
C9_StripsOneLayer ==
    HasEnterpriseStr =>
        LET v == EnterpriseChars
            s1 == strip_quotes(v)
        IN  /\ ~QuoteAtBothEnds(v) => s1 = v
            /\ QuoteAtBothEnds(v) => s1 = SubSeq(v, 2, Len(v) - 1)
            /\ (strip_quotes(s1) = s1) <=> ~QuoteAtBothEnds(s1)
            /\ v \in {<<>>, <<"\"">>, <<"\"", "A", "\"">>} => strip_quotes(s1) = s1

\* a doubly-wrapped empty value is on its way with one pair of quotes left
C9_Witness ==
    /\ pc = "calling"
    /\ HasEnterpriseStr
    /\ EnterpriseChars = <<"\"", "\"", "\"", "\"">>
    /\ request.url = EnterpriseUrl(FName, <<"%", "2", "2", "%", "2", "2">>)

(***************************************************************************)
(* C10.  When the backend answers 2xx with a JSON body, the result of the  *)
(* dispatch is exactly the parsed payload, and the body of the response is *)
(* its serialization: parsing it gives the payload back, nothing added,    *)
(* removed or changed.                                                     *)
(***************************************************************************)
C10_PayloadUnchanged ==
    (pc = "returned" /\ SuccessfulCall) =>
        /\ result = json_loads(outcome.body).value
        /\ BodyOf(response).chars = json_dumps(result)
        /\ json_loads(BodyOf(response).chars) = Returned(result)
        /\ outcome.body = S_json_oee =>
              /\ result = PyDict(<< <<PyStr(S_oee), PyFloat(S_0_82)>> >>)
              /\ BodyOf(response).chars = S_json_oee

\* the compact text of {"oee": 0.82} came back as the same payload
C10_Witness ==
    /\ pc = "returned"
    /\ SuccessfulCall
    /\ outcome.body = S_json_oee_compact
    /\ result = PyDict(<< <<PyStr(S_oee), PyFloat(S_0_82)>> >>)
    /\ BodyOf(response).chars = S_json_oee


(***************************************************************************)
(* C11.  When the backend answers with a status outside 2xx (urlopen       *)
(* raises HTTPError with code c), the handler returns, the result is       *)
(* {"error": <text>} and the text, like the response body, contains the    *)
(* decimal digits of c.                                                    *)
(***************************************************************************)
C11_StatusCodeInError ==
    (Finished /\ outcome # Nil /\ outcome.kind = "exception"
              /\ outcome.exc.etype = "HTTPError") =>
        /\ pc = "returned"
        /\ IsErrorDict(result)
        /\ Contains(result.items[1][2].chars, int_str(outcome.exc.code))
        /\ Contains(BodyOf(response).chars, int_str(outcome.exc.code))

\* the backend answered 503 and the error text carries "503"
C11_Witness ==
    /\ pc = "returned"
    /\ outcome # Nil /\ outcome.kind = "exception" /\ outcome.exc.etype = "HTTPError"
    /\ outcome.exc.code = 503
    /\ IsErrorDict(result)
    /\ Contains(result.items[1][2].chars, <<"5", "0", "3">>)

\* the urlopen call of this invocation ended in the socket timeout
TimedOut ==
    /\ outcome # Nil
    /\ outcome.kind = "exception"
    /\ \/ outcome.exc.etype = "URLError" /\ outcome.exc.reason = S_timed_out
       \/ outcome.exc.etype = "TimeoutError"

(***************************************************************************)
(* C12 as stated.  A call that ended in the timeout, while connecting or   *)
(* while reading, yields an error text that contains "timeout".            *)
(***************************************************************************)
C12_AsStated ==
    (Finished /\ TimedOut) =>
        /\ pc = "returned"
        /\ IsErrorDict(result)
        /\ Contains(result.items[1][2].chars, <<"t", "i", "m", "e", "o", "u", "t">>)

(***************************************************************************)
(* C12 as amended.  A backend that never answers cannot block the handler  *)
(* for ever: every urlopen call is followed by the handler's return, and   *)
(* a call the socket timeout ended, while connecting or while reading,     *)
(* returns {"error": <text>} with a text that contains "timed out":        *)
(* "Failed to connect to backend: timed out" while connecting, "timed out" *)
(* while reading.                                                          *)
(***************************************************************************)
C12_TimeoutEndsTheCall ==
    /\ (pc = "calling") ~> (pc = "returned")
    /\ []((Finished /\ TimedOut) =>
            /\ pc = "returned"
            /\ IsErrorDict(result)
            /\ result.items[1][2].chars =
                 IF outcome.exc.etype = "URLError"
                 THEN S_Failed_to_connect \o S_timed_out ELSE S_timed_out
            /\ Contains(result.items[1][2].chars, S_timed_out))

\* the socket timed out while reading the answer and the handler returned
C12_Witness ==
    /\ pc = "returned"
    /\ TimedOut
    /\ outcome.exc.etype = "TimeoutError"
    /\ result = error_dict(S_timed_out)

\* the socket timed out while connecting and the handler returned
C12_WitnessConnect ==
    /\ pc = "returned"
    /\ TimedOut
    /\ outcome.exc.etype = "URLError"
    /\ Contains(result.items[1][2].chars, S_timed_out)

\* the backend call of this invocation failed: transport error, timeout, a
\* status outside 2xx, or a 2xx answer whose body is no JSON
FailedCall ==
    /\ outcome # Nil
    /\ \/ outcome.kind = "exception"
       \/ outcome.kind = "response" /\ json_loads(outcome.body).raised

(***************************************************************************)
(* C13.  Nothing is retried: at every point of an invocation the number of *)
(* urlopen calls it has issued is at most one, and an invocation whose     *)
(* backend call failed (transport error, timeout, status outside 2xx, body *)
(* that is no JSON) ends having issued exactly that one call.              *)
(***************************************************************************)
C13_NothingRetried ==
    /\ calls \in {0, 1}
    /\ pc = "calling" => calls = 1
    /\ (Finished /\ FailedCall) => (pc = "returned" /\ calls = 1 /\ IsErrorDict(result))

\* a 2xx answer with a body that is no JSON ended the invocation after one call
C13_Witness ==
    /\ pc = "returned"
    /\ FailedCall
    /\ outcome.kind = "response"
    /\ outcome.body = S_html
    /\ calls = 1

\* what the handler owes the caller of event e: the request it sends, if any
OwnRequest(e) ==
    LET step == route_tool_call(function_name(e).value, extract_params(e))
    IN  IF step.kind = "call" THEN backend_request(step.path, step.method, step.data) ELSE Nil

\* what the handler owes the caller of event e whose connection ended in o
\* (Nil when no call was made)
OwnAnswer(e, o) ==
    LET step == route_tool_call(function_name(e).value, extract_params(e))
    IN  Delivered(handler_return(e,
            IF step.kind = "call" THEN call_backend_api(o)
            ELSE IF step.kind = "return" THEN Returned(step.value)
            ELSE [raised |-> TRUE, exc |-> step.exc]))

(***************************************************************************)
(* C14.  Under every interleaving of the steps of concurrent invocations,  *)
(* each caller's handler works on the event that caller passed, sends the  *)
(* request of that event, and returns the response built from that event   *)
(* and from the answer on that caller's own connection; the module global  *)
(* BACKEND_API_URL, the only state the invocations share, is never         *)
(* changed.                                                                *)
(***************************************************************************)
C14_NoCrossTalk ==
    /\ globals = [BACKEND_API_URL |-> S_BACKEND_API_URL]
    /\ \A i \in Callers :
         LET inv == invocations[i]
         IN  /\ InFlight(i) => locals[i].event = inv.event
             /\ inv.pc = "calling" => locals[i].request = OwnRequest(inv.event)
             /\ inv.pc = "returned" =>
                   /\ inv.answer = OwnAnswer(inv.event, inv.outcome)
                   /\ Lookup(Lookup(inv.answer, PyStr(Key.response)), PyStr(Key.apiPath))
                        = api_path(inv.event)

\* two callers with different events whose invocations overlapped: one has its
\* own payload back, the other its own 503
C14_Witness ==
    /\ invocations[1].pc = "returned" /\ invocations[2].pc = "returned"
    /\ invocations[1].overlapped /\ invocations[2].overlapped
    /\ invocations[1].event # invocations[2].event
    /\ invocations[1].outcome # Nil /\ invocations[1].outcome.kind = "response"
    /\ invocations[2].outcome # Nil /\ invocations[2].outcome.kind = "exception"
    /\ BodyOf(invocations[1].answer).chars = S_json_oee
    /\ Contains(BodyOf(invocations[2].answer).chars, <<"5", "0", "3">>)

\* the event's properties are a mapping from names to literal values
LiteralShape ==
    /\ event # Nil
    /\ ~properties_of(event).raised
    /\ IsDict(properties_of(event).value)
    /\ properties_of(event).value.items # <<>>
    /\ \A i \in 1..Len(properties_of(event).value.items) :
          ~IsDict(properties_of(event).value.items[i][2])

\* the same event with each parameter in a {"name": ..., "value": ...} wrapper
\* of a properties list
WrapperShape ==
    LET items == properties_of(event).value.items
    IN  dict_set(event, PyStr(Key.requestBody),
                 RequestBody([i \in 1..Len(items) |->
                                 PyDict(<< <<PyStr(Key.name), items[i][1]>>,
                                           <<PyStr(Key.value), items[i][2]>> >>)]))

(***************************************************************************)
(* C15.  A parameter supplied as a literal value and the same parameter    *)
(* supplied in a {value: ...} wrapper of a properties list produce the     *)
(* same backend request.                                                   *)
(***************************************************************************)
C15_BothShapes ==
    (pc = "calling" /\ LiteralShape) => request = OwnRequest(WrapperShape)

\* s is percent-encoded: unreserved characters and %XX triplets only
PercentEncoded(s) ==
    \A i \in 1..Len(s) :
        \/ s[i] \in Unreserved
        \/ /\ s[i] = "%"
           /\ i + 2 <= Len(s)
           /\ \A k \in {i + 1, i + 2} :
                 s[k] \in {"0", "1", "2", "3", "4", "5", "6", "7", "8", "9",
                           "A", "B", "C", "D", "E", "F"}

\* the text a percent-encoded s stands for
RECURSIVE unquote(_)
unquote(s) ==
    IF s = <<>> THEN <<>>
    ELSE IF Head(s) = "%"
         THEN <<CHOOSE c \in {" ", "\"", "#", "%", "&", "/", "=", "?"} :
                    HexCode(c) = SubSeq(s, 2, 3)>> \o unquote(SubSeq(s, 4, Len(s)))
    ELSE <<Head(s)>> \o unquote(Tail(s))

\* the URL of a read-style request up to the value of its one parameter
ReadPrefix == S_BACKEND_API_URL \o PathFor(FName) \o <<"?">> \o Key.enterprise \o <<"=">>

\* what follows ReadPrefix in the request's URL
EncodedValue == SubSeq(request.url, Len(ReadPrefix) + 1, Len(request.url))

(***************************************************************************)
(* C16.  The method and the encoding of the request are fixed by the       *)
(* route, whatever httpMethod the event names.  query_influxdb sends a     *)
(* POST whose body is the JSON text of {"query": ..., "max_rows": ...},    *)
(* with Content-Type application/json.  The other four routes send a GET   *)
(* without body whose URL ends in ?enterprise=<v>, where <v> is            *)
(* percent-encoded (unreserved characters and %XX only) and decodes to the *)
(* value sent: the supplied enterprise without its wrapping quotes, ALL,   *)
(* or Enterprise C for get_batch_health.                                   *)
(***************************************************************************)
C16_MethodAndEncodingByRoute ==
    (pc = "calling") =>
        IF FName = S_query_influxdb
        THEN /\ request.method = S_POST
             /\ request.headers = << <<S_Content_Type, Key.application_json>> >>
             /\ IsStr(request.data)
             /\ request.data.chars =
                  json_dumps(PyDict(<< <<PyStr(Key.query),
                                         dict_get(Params, PyStr(Key.query), PyStr(<<>>))>>,
                                       <<PyStr(Key.max_rows),
                                         dict_get(Params, PyStr(Key.max_rows), PyInt(1000))>> >>))
             /\ IsPrefix(<<"{", "\"", "q", "u", "e", "r", "y", "\"", ":", " ">>, request.data.chars)
             /\ Contains(request.data.chars,
                         <<",", " ", "\"", "m", "a", "x", "_", "r", "o", "w", "s", "\"", ":", " ">>)
             /\ request.url = S_BACKEND_API_URL \o PathFor(FName)
        ELSE /\ request.method = S_GET
             /\ request.data = PyNone
             /\ request.headers = <<>>
             /\ IsPrefix(ReadPrefix, request.url)
             /\ PercentEncoded(EncodedValue)
             /\ unquote(EncodedValue) =
                  IF FName = S_get_batch_health
                  THEN <<"E", "n", "t", "e", "r", "p", "r", "i", "s", "e", " ", "C">>
                  ELSE IF HasKey(Params, PyStr(Key.enterprise))
                       THEN strip_quotes(EnterpriseChars) ELSE S_ALL

\* query_influxdb from an event whose httpMethod is GET: a POST with the JSON
\* text of the query and the default max_rows
C16_Witness ==
    /\ pc = "calling"
    /\ FName = S_query_influxdb
    /\ http_method(event) = PyStr(S_GET)
    /\ request.method = S_POST
    /\ request.data = PyStr(<<"{", "\"", "q", "u", "e", "r", "y", "\"", ":", " ", "\"">> \o S_SELECT
                            \o <<"\"", ",", " ", "\"", "m", "a", "x", "_", "r", "o", "w", "s", "\"",
                                 ":", " ", "1", "0", "0", "0", "}">>)

\* a read-style route from an event without httpMethod (POST by default): a GET
\* whose value holds an encoded space
C16_WitnessRead ==
    /\ pc = "calling"
    /\ FName = S_get_waste_by_line
    /\ http_method(event) = PyStr(S_POST)
    /\ request.method = S_GET
    /\ Contains(EncodedValue, <<"A", "%", "2", "0", "A">>)

\* the MCP connection step of this invocation failed, at the import, at the
\* opening of the session or at the listing of the tools
McpStepFailed == mcp_step.state \in {"import failed", "open failed", "list failed"}

(***************************************************************************)
(* C18.  In the chat and troubleshoot agents invoke builds the Agent with  *)
(* exactly [retrieve] when MCP_SERVER_URL is unset or when the MCP step    *)
(* failed at the import, at the opening of the session or at the listing   *)
(* of the tools, and with the listed MCP tools followed by retrieve when   *)
(* the step succeeded; retrieve is among the tools at every point of       *)
(* invoke, and the failure never leaves invoke.                            *)
(***************************************************************************)
C18_LocalToolsFallback ==
    /\ apc # "raised"
    /\ (apc \in {"import", "open", "list", "build", "streaming"}
           /\ app \in {"chat", "troubleshoot"}) =>
          \E i \in 1..Len(tools) : tools[i] = "retrieve"
    /\ (apc = "streaming" /\ app \in {"chat", "troubleshoot"}) =>
          /\ agent # Nil
          /\ (MCP_SERVER_URL = "" \/ McpStepFailed) => agent.tools = <<"retrieve">>
          /\ MCP_SERVER_URL = "" => mcp_step.state = "skipped"
          /\ (MCP_SERVER_URL # "" /\ ~McpStepFailed) =>
                /\ mcp_step.state = "listed"
                /\ agent.tools = mcp_step.listed \o <<"retrieve">>
                /\ agent.tools[Len(agent.tools)] = "retrieve"

\* the session opened, the listing failed, and the troubleshoot agent was
\* built with the local tool alone
C18_Witness ==
    /\ apc = "streaming"
    /\ app = "troubleshoot"
    /\ mcp_step.state = "list failed"
    /\ sessions = 1
    /\ agent.tools = <<"retrieve">>

\* the chat agent was built with two MCP tools and retrieve after them
C18_WitnessListed ==
    /\ apc = "streaming"
    /\ app = "chat"
    /\ mcp_step.state = "listed"
    /\ agent.tools = <<"query_influxdb", "get_oee_breakdown", "retrieve">>

\* the value the event carries under key k, or what the handler reads in its
\* place when the event has none
Echoed(k, default) == IF HasKey(event, PyStr(k)) THEN Lookup(event, PyStr(k)) ELSE PyStr(default)

\* route_tool_call raised and the handler's except clause answered
ExceptionPath == pc = "returned" /\ result = Nil

(***************************************************************************)
(* C19.  Every response of the handler, on the normal and on the exception *)
(* path, is {"messageVersion": "1.0", "response": {...}} whose response    *)
(* carries the event's own actionGroup, apiPath and httpMethod unchanged   *)
(* ("", "" and "POST" for an event without them) and, under                *)
(* responseBody["application/json"].body, the JSON text of the result: of  *)
(* what route_tool_call returned, or of {"error": <text of the exception>} *)
(* when it raised.                                                         *)
(***************************************************************************)
C19_ResponseEchoesEvent ==
    pc = "returned" =>
        LET r == Lookup(response, PyStr(Key.response))
        IN  /\ Len(response.items) = 2
            /\ Lookup(response, PyStr(Key.messageVersion)) = PyStr(S_1_0)
            /\ Len(r.items) = 4
            /\ Lookup(r, PyStr(Key.actionGroup)) = Echoed(Key.actionGroup, <<>>)
            /\ Lookup(r, PyStr(Key.apiPath)) = Echoed(Key.apiPath, <<>>)
            /\ Lookup(r, PyStr(Key.httpMethod)) = Echoed(Key.httpMethod, S_POST)
            /\ Lookup(r, PyStr(Key.responseBody)) =
                 PyDict(<< <<PyStr(Key.application_json),
                             PyDict(<< <<PyStr(Key.body), BodyOf(response)>> >>)>> >>)
            /\ IF ExceptionPath
               THEN BodyOf(response).chars =
                      <<"{", "\"", "e", "r", "r", "o", "r", "\"", ":", " ", "\"", "'">>
                      \o S_type_name(Lookup(Params, PyStr(Key.enterprise)))
                      \o S_no_attribute_startswith \o <<"\"", "}">>
               ELSE BodyOf(response).chars = json_dumps(result)

\* the exception path answered an event of OEETools whose apiPath has two
\* slashes: both are echoed as they came
C19_Witness ==
    /\ ExceptionPath
    /\ Lookup(Lookup(response, PyStr(Key.response)), PyStr(Key.actionGroup)) = PyStr(S_OEETools)
    /\ Lookup(Lookup(response, PyStr(Key.response)), PyStr(Key.apiPath))
         = PyStr(<<"/", "/">> \o S_get_oee_breakdown)
    /\ Lookup(Lookup(response, PyStr(Key.response)), PyStr(Key.httpMethod)) = PyStr(S_GET)
    /\ Contains(BodyOf(response).chars, S_no_attribute_startswith)

\* the kinds of error text call_backend_api writes
IsHttpErrorText(t) == IsPrefix(S_Backend_returned, t)
IsConnectErrorText(t) == IsPrefix(S_Failed_to_connect, t)

(***************************************************************************)
(* C20.  A failed backend call is reported under exactly one kind.  A      *)
(* status outside 2xx gives "Backend returned <code>: <reason>" and never  *)
(* the text of a connection failure; a failure to connect (refused, or     *)
(* timed out while connecting) gives "Failed to connect to backend:        *)
(* <reason>"; anything else, a body that is no JSON, a timeout while       *)
(* reading or a connection the backend closed before answering, gives the  *)
(* text of the exception as it is.                                         *)
(***************************************************************************)
C20_ErrorKinds ==
    (Finished /\ FailedCall) =>
        /\ IsErrorDict(result)
        /\ LET t == result.items[1][2].chars
           IN  IF outcome.kind = "exception" /\ outcome.exc.etype = "HTTPError"
               THEN /\ t = S_Backend_returned \o int_str(outcome.exc.code) \o <<":", " ">>
                             \o outcome.exc.reason
                    /\ IsHttpErrorText(t) /\ ~IsConnectErrorText(t)
               ELSE IF outcome.kind = "exception" /\ outcome.exc.etype = "URLError"
               THEN /\ t = S_Failed_to_connect \o outcome.exc.reason
                    /\ IsConnectErrorText(t) /\ ~IsHttpErrorText(t)
               ELSE /\ t = IF outcome.kind = "exception" THEN outcome.exc.msg
                           ELSE S_Expecting_value
                    /\ ~IsHttpErrorText(t) /\ ~IsConnectErrorText(t)

\* a 503 was reported as "Backend returned 503: Service Unavailable"
C20_Witness ==
    /\ pc = "returned"
    /\ FailedCall
    /\ outcome.kind = "exception" /\ outcome.exc.etype = "HTTPError"
    /\ result = error_dict(<<"B", "a", "c", "k", "e", "n", "d", " ", "r", "e", "t", "u", "r", "n",
                             "e", "d", " ", "5", "0", "3", ":", " ">> \o S_Service_Unavailable)

\* a body that is no JSON was reported with the text of the JSONDecodeError
C20_WitnessRaw ==
    /\ pc = "returned"
    /\ FailedCall
    /\ outcome.kind = "response"
    /\ result = error_dict(S_Expecting_value)

\* the elements of the event's properties list (none when properties is no list)
PropertiesList ==
    LET p == properties_of(event)
    IN  IF ~p.raised /\ p.value.type = "list" THEN p.value.elems ELSE <<>>

\* the positions of the properties named enterprise
EnterpriseAt ==
    {i \in 1..Len(PropertiesList) :
        /\ IsDict(PropertiesList[i])
        /\ dict_get(PropertiesList[i], PyStr(Key.name), PyNone) = PyStr(Key.enterprise)}

\* the positions the handler's loop gets to: every element up to there is a
\* dict with a hashable name
ReadAt ==
    {i \in 1..Len(PropertiesList) :
        \A j \in 1..i :
            /\ IsDict(PropertiesList[j])
            /\ dict_get(PropertiesList[j], PyStr(Key.name), PyNone).type \notin {"list", "dict"}}

\* the value of the last property of at, None for a property without a value
LastValue(at) ==
    dict_get(PropertiesList[CHOOSE i \in at : \A j \in at : j <= i], PyStr(Key.value), PyNone)

\* What an enterprise tool does with the enterprise properties at the positions
\* at: without any, the request goes out with enterprise=ALL; with a str value, with
\* that value; with no value or a value that is no str, the handler returns
\* {"error": "'<type>' object has no attribute 'startswith'"} without any request.
EnterpriseOutcome(at) ==
    (event # Nil /\ pc # "idle" /\ FName \in EnterpriseTools) =>
        IF at = {}
        THEN /\ calls = 1
             /\ request.url = EnterpriseUrl(FName, <<"A", "L", "L">>)
        ELSE IF IsStr(LastValue(at))
        THEN /\ calls = 1
             /\ request.url = EnterpriseUrl(FName, quote(strip_quotes(LastValue(at).chars)))
        ELSE /\ calls = 0
             /\ pc = "returned"
             /\ result = Nil
             /\ Contains(BodyOf(response).chars, S_no_attribute_startswith)

(***************************************************************************)
(* C21, as stated.  For get_oee_breakdown, get_equipment_states and        *)
(* get_waste_by_line, an enterprise property that is present with no value *)
(* or with a value that is no string ends in an error response and no      *)
(* backend call, and the default ALL is sent only when the properties hold *)
(* no enterprise property at all.                                          *)
(***************************************************************************)
C21_AsStated == EnterpriseOutcome(EnterpriseAt)

(***************************************************************************)
(* C21.  The same, of the enterprise properties the handler's loop gets    *)
(* to: one it reads with no value or with a value that is no string ends   *)
(* in an error response and no backend call, one it reads with a string is *)
(* sent with that string, and the default ALL is sent when it reads none,  *)
(* be it that the properties hold none or that the loop stopped at an      *)
(* element ahead of it.                                                    *)
(***************************************************************************)
C21_ValuelessEnterpriseIsAnError == EnterpriseOutcome(EnterpriseAt \cap ReadAt)

\* get_waste_by_line with an enterprise property without a value has returned
\* the error and called nothing
C21_Witness ==
    /\ pc = "returned"
    /\ FName = S_get_waste_by_line
    /\ PropertiesList = <<Property(Key.enterprise, Absent)>>
    /\ calls = 0
    /\ Contains(BodyOf(response).chars,
                <<"'", "N", "o", "n", "e", "T", "y", "p", "e">> \o S_no_attribute_startswith)

\* the same with the number 5 for a value
C21_WitnessNumber ==
    /\ pc = "returned"
    /\ FName = S_get_oee_breakdown
    /\ PropertiesList = <<Property(Key.enterprise, PyInt(5))>>
    /\ calls = 0
    /\ Contains(BodyOf(response).chars, <<"'", "i", "n", "t">> \o S_no_attribute_startswith)

\* an enterprise property behind an element that is no dict: the request is on
\* its way with enterprise=ALL
C21_WitnessUnread ==
    /\ pc = "calling"
    /\ FName = S_get_equipment_states
    /\ EnterpriseAt # {}
    /\ EnterpriseAt \cap ReadAt = {}
    /\ request.url = EnterpriseUrl(S_get_equipment_states, S_ALL)

\* the one URL of get_batch_health
BatchHealthUrl ==
    S_BACKEND_API_URL
    \o <<"/", "a", "p", "i", "/", "b", "a", "t", "c", "h", "/", "h", "e", "a", "l", "t", "h">>
    \o <<"?", "e", "n", "t", "e", "r", "p", "r", "i", "s", "e", "=">>
    \o <<"E", "n", "t", "e", "r", "p", "r", "i", "s", "e", "%", "2", "0", "C">>

(***************************************************************************)
(* C22.  get_batch_health ignores every parameter: whatever the event's    *)
(* properties are, the handler makes one request, GET                      *)
(* /api/batch/health?enterprise=Enterprise%20C without a body, so that an  *)
(* enterprise value of the caller never reaches the URL.                   *)
(***************************************************************************)
C22_BatchHealthIgnoresParameters ==
    (event # Nil /\ pc # "idle" /\ FName = S_get_batch_health) =>
        /\ calls = 1
        /\ request.url = BatchHealthUrl
        /\ request.method = <<"G", "E", "T">>
        /\ request.data = PyNone
        /\ request.headers = <<>>

\* get_batch_health with the enterprise value "A" is on its way to Enterprise C
C22_Witness ==
    /\ pc = "calling"
    /\ FName = S_get_batch_health
    /\ HasKey(Params, PyStr(Key.enterprise))
    /\ Lookup(Params, PyStr(Key.enterprise)) = PyStr(<<"A">>)
    /\ request.url = BatchHealthUrl

\* the same with an enterprise property without a value, an error for the other tools
C22_WitnessNoValue ==
    /\ pc = "calling"
    /\ FName = S_get_batch_health
    /\ PropertiesList = <<Property(Key.enterprise, Absent)>>
    /\ request.url = BatchHealthUrl

\* the event e without its actionGroup and httpMethod
Unhinted(e) ==
    PyDict(SelectSeq(e.items,
                     LAMBDA kv : kv[1] \notin {PyStr(Key.actionGroup), PyStr(Key.httpMethod)}))

\* the body text the handler returns for the event e whose call, if it makes
\* one, ended in o
OwnBody(e, o) ==
    LET step == route_tool_call(function_name(e).value, extract_params(e))
    IN  BodyOf(handler_return(e,
            IF step.kind = "call" THEN call_backend_api(o)
            ELSE IF step.kind = "return" THEN Returned(step.value)
            ELSE [raised |-> TRUE, exc |-> step.exc]).value)

\* the action groups of the four agents
ActionGroups ==
    {PyStr(<<"O", "E", "E", "T", "o", "o", "l", "s">>),
     PyStr(<<"E", "q", "u", "i", "p", "m", "e", "n", "t", "T", "o", "o", "l", "s">>),
     PyStr(<<"W", "a", "s", "t", "e", "T", "o", "o", "l", "s">>),
     PyStr(<<"B", "a", "t", "c", "h", "T", "o", "o", "l", "s">>)}

(***************************************************************************)
(* C23.  The backend request and the body of the result depend on apiPath  *)
(* and on the parameters alone: an event makes the request, and for the    *)
(* same answer of the backend returns the body, that the same event        *)
(* without actionGroup and httpMethod makes and returns.  So a tool is     *)
(* called for whichever action group asks, and the request's method is GET *)
(* for the four reading tools and POST for query_influxdb whatever the     *)
(* event's httpMethod says.                                                *)
(***************************************************************************)
C23_HintsChangeNothing ==
    (event # Nil /\ pc # "idle") =>
        /\ request = OwnRequest(Unhinted(event))
        /\ calls = IF request = Nil THEN 0 ELSE 1
        /\ pc = "returned" => BodyOf(response) = OwnBody(Unhinted(event), outcome)
        /\ (FName \in RoutedNames /\ action_group(event) \in ActionGroups) =>
              \/ calls = 1
              \/ FName \in EnterpriseTools /\ ExceptionPath
        /\ calls = 1 =>
              request.method =
                  IF FName = S_query_influxdb THEN <<"P", "O", "S", "T">> ELSE <<"G", "E", "T">>

\* get_oee_breakdown asked for by BatchTools with httpMethod POST has been
\* answered from a GET request
C23_Witness ==
    /\ pc = "returned"
    /\ FName = S_get_oee_breakdown
    /\ action_group(event) = PyStr(<<"B", "a", "t", "c", "h", "T", "o", "o", "l", "s">>)
    /\ http_method(event) = PyStr(S_POST)
    /\ request.method = S_GET
    /\ result # Nil
    /\ BodyOf(response).chars = S_json_oee

\* query_influxdb asked for by OEETools with httpMethod GET is on its way as a POST
C23_WitnessPost ==
    /\ pc = "calling"
    /\ FName = S_query_influxdb
    /\ action_group(event) = PyStr(S_OEETools)
    /\ http_method(event) = PyStr(S_GET)
    /\ request.method = S_POST

\* the characters a value must not bring into the URL
Reserved == {"&", "=", "?", "#", "/", " ", "\""}

\* how many times the character c occurs in s
Occurrences(s, c) == Cardinality({i \in 1..Len(s) : s[i] = c})

\* the request's URL after the backend's base URL
PathAndQuery == SubSeq(request.url, Len(S_BACKEND_API_URL) + 1, Len(request.url))

\* the route prefixes of the three tools that send the caller's enterprise
RoutePrefix(n) ==
    CASE n = S_get_oee_breakdown ->
           <<"/", "a", "p", "i", "/", "o", "e", "e", "/", "v", "2", "?", "e", "n", "t", "e", "r", "p", "r", "i", "s", "e", "=">>
      [] n = S_get_equipment_states ->
           <<"/", "a", "p", "i", "/", "f", "a", "c", "t", "o", "r", "y", "/", "s", "t", "a", "t", "u", "s", "?", "e", "n", "t", "e", "r", "p", "r", "i", "s", "e", "=">>
      [] n = S_get_waste_by_line ->
           <<"/", "a", "p", "i", "/", "w", "a", "s", "t", "e", "/", "b", "r", "e", "a", "k", "d", "o", "w", "n", "?", "e", "n", "t", "e", "r", "p", "r", "i", "s", "e", "=">>

(***************************************************************************)
(* C24.  Whatever string the enterprise value is, what the request's URL   *)
(* holds after the route prefix "<path>?enterprise=" contains none of the  *)
(* characters & = ? # / space and double quote; the URL so has the route's *)
(* fixed path, one "?", one "=" and no "&" or "#": one query parameter,    *)
(* enterprise, that a value can neither add to nor move to another path.   *)
(***************************************************************************)
C24_ValueCannotReshapeUrl ==
    (event # Nil /\ pc # "idle" /\ calls = 1 /\ FName \in EnterpriseTools) =>
        LET prefix == RoutePrefix(FName)
            value == SubSeq(PathAndQuery, Len(prefix) + 1, Len(PathAndQuery))
        IN  /\ IsPrefix(prefix, PathAndQuery)
            /\ \A i \in 1..Len(value) : value[i] \notin Reserved
            /\ Occurrences(PathAndQuery, "?") = 1
            /\ Occurrences(PathAndQuery, "=") = 1
            /\ Occurrences(PathAndQuery, "&") = 0
            /\ Occurrences(PathAndQuery, "#") = 0
            /\ Occurrences(PathAndQuery, "/") = Occurrences(prefix, "/")
            /\ Occurrences(PathAndQuery, " ") = 0
            /\ Occurrences(PathAndQuery, "\"") = 0

\* the enterprise value "&A=" is on its way as %26A%3D
C24_Witness ==
    /\ pc = "calling"
    /\ FName = S_get_oee_breakdown
    /\ PropertiesList = <<Property(Key.enterprise, PyStr(<<"&", "A", "=">>))>>
    /\ PathAndQuery = RoutePrefix(S_get_oee_breakdown) \o <<"%", "2", "6", "A", "%", "3", "D">>

\* the enterprise value "/A?" is on its way as %2FA%3F
C24_WitnessPath ==
    /\ pc = "calling"
    /\ FName = S_get_waste_by_line
    /\ PropertiesList = <<Property(Key.enterprise, PyStr(<<"/", "A", "?">>))>>
    /\ PathAndQuery = RoutePrefix(S_get_waste_by_line) \o <<"%", "2", "F", "A", "%", "3", "F">>

(***************************************************************************)
(* C25.  Every MCP session an invocation opens is closed by the time the   *)
(* invocation ends, by exhaustion of the stream or by an exception, the    *)
(* listing of the tools having failed or not: between invocations the      *)
(* process holds no open session, and it never holds more than the one of  *)
(* the invocation under way.                                               *)
(***************************************************************************)
C25_SessionsClosed ==
    /\ apc = "ready" => sessions = 0
    /\ sessions <= 1

\* the same of edgemindassistant alone, whose session is opened by a with statement
C25_AssistantCloses ==
    (apc # "unloaded" /\ app = "edgemindassistant") =>
        /\ apc = "ready" => sessions = 0
        /\ sessions <= 1
        /\ apc \in {"entered", "streaming"} => sessions = 1

\* the chat agent is between invocations with a session left open
C25_LeftOpen ==
    /\ apc = "ready"
    /\ app = "chat"
    /\ sessions = 1

\* edgemindassistant has opened a session, failed to list the tools, and is
\* between invocations without a session
C25_AssistantListFailed ==
    /\ apc = "ready"
    /\ app = "edgemindassistant"
    /\ mcp_step.state = "list failed"
    /\ sessions = 0

\* event i of the stream carries a text chunk: data that is a str
HasText(i) ==
    /\ HasKey(stream[i], PyStr(Key.data))
    /\ Lookup(stream[i], PyStr(Key.data)).type = "str"

\* event i of the stream names a tool in use: current_tool_use with a name
\* that is not empty
NamesTool(i) ==
    /\ HasKey(stream[i], PyStr(Key.current_tool_use))
    /\ HasKey(Lookup(stream[i], PyStr(Key.current_tool_use)), PyStr(Key.name))
    /\ Lookup(Lookup(stream[i], PyStr(Key.current_tool_use)), PyStr(Key.name))
          \notin {PyNone, PyStr(<<>>)}

\* how many items the first i events of the stream are owed: one for each text
\* chunk and, in the chat agent, one for each tool named
ItemsOwed(i) ==
    Cardinality({j \in 1..i : HasText(j)})
    + (IF app = "chat" THEN Cardinality({j \in 1..i : NamesTool(j)}) ELSE 0)

(***************************************************************************)
(* C26.  At every point of the loop, what invoke has yielded is, in stream *)
(* order, the data of each event read whose data is a str, and nothing for *)
(* an event without data or with data of another type; the chat agent      *)
(* yields in addition {"type": "tool_use", "name": <name>} for each event  *)
(* read whose current_tool_use has a name that is not empty, ahead of that *)
(* event's own text chunk.  The loop ends with the stream, so that all of  *)
(* the stream's text chunks are yielded.                                   *)
(***************************************************************************)
C26_StreamPassedOn ==
    apc = "streaming" =>
        /\ Len(yielded) = ItemsOwed(Len(stream))
        /\ \A k \in 1..Len(yielded) :
              \* item k is owed to event i
              LET i == CHOOSE n \in 1..Len(stream) : ItemsOwed(n - 1) < k /\ k <= ItemsOwed(n)
              IN  IF app = "chat" /\ NamesTool(i) /\ k = ItemsOwed(i - 1) + 1
                  THEN yielded[k] =
                         PyDict(<< <<PyStr(Key.type), PyStr(<<"t", "o", "o", "l", "_", "u", "s", "e">>)>>,
                                   <<PyStr(Key.name),
                                     Lookup(Lookup(stream[i], PyStr(Key.current_tool_use)),
                                            PyStr(Key.name))>> >>)
                  ELSE /\ HasText(i)
                       /\ yielded[k] = Lookup(stream[i], PyStr(Key.data))

\* the chat agent has read a tool use that comes with a text, and then a text:
\* it has yielded the tool_use item, the first text, the second text
C26_Witness ==
    /\ apc = "streaming"
    /\ app = "chat"
    /\ Len(stream) = 2
    /\ yielded = <<PyDict(<< <<PyStr(Key.type), PyStr(Key.tool_use)>>,
                             <<PyStr(Key.name), PyStr(S_get_oee)>> >>),
                   PyStr(<<"A">>), PyStr(<<"B">>)>>

\* the anomaly agent has read data that is no str and an event without data,
\* and has yielded nothing
C26_WitnessDropped ==
    /\ apc = "streaming"
    /\ app = "anomaly"
    /\ stream = <<PyDict(Pair(Key.data, PyInt(5))), PyDict(<<>>)>>
    /\ yielded = <<>>

\* the troubleshoot agent has read a tool use that comes with a text, and has
\* yielded the text alone
C26_WitnessTextOnly ==
    /\ apc = "streaming"
    /\ app = "troubleshoot"
    /\ Len(stream) = 1
    /\ HasKey(stream[1], PyStr(Key.current_tool_use))
    /\ yielded = <<PyStr(<<"A">>)>>

\* the hits of the store's answer that retrieve owes its caller: those whose
\* score 1 / (1 + distance) is at least min_score = num / den, which for a
\* distance that is not negative says num * (1 + distance) <= den
HitsKept ==
    {i \in 1..Len(retrieved.results.documents) :
        retrieved.min_score.num * (1 + retrieved.results.distances[i]) <= retrieved.min_score.den}

(***************************************************************************)
(* C27.  retrieve returns the hits of the store's answer whose score       *)
(* 1 / (1 + distance) is at least min_score, all of them and no other, in  *)
(* the order of the answer, each with the content, the metadata and the    *)
(* score of that very hit, and never more than max_results of them; with   *)
(* min_score 0 it returns every hit, and for an answer without hits the    *)
(* empty list.                                                             *)
(***************************************************************************)
C27_RetrieveFiltersByScore ==
    retrieved # Nil =>
        /\ Len(retrieved.docs) = Cardinality(HitsKept)
        /\ \A k \in 1..Len(retrieved.docs) :
              \* doc k is the k-th hit kept
              LET i == CHOOSE n \in HitsKept : Cardinality({j \in HitsKept : j <= n}) = k
              IN  /\ retrieved.docs[k].content = retrieved.results.documents[i]
                  /\ retrieved.docs[k].metadata = retrieved.results.metadatas[i]
                  /\ retrieved.docs[k].score =
                        [num |-> 1, den |-> 1 + retrieved.results.distances[i]]
        /\ Len(retrieved.docs) <= retrieved.max_results
        /\ retrieved.min_score.num = 0 =>
              Len(retrieved.docs) = Len(retrieved.results.documents)
        /\ retrieved.results.documents = <<>> => retrieved.docs = <<>>

\* two hits at distances 1 and 3 with min_score 1/4: both are returned, the
\* second with a score that equals min_score
C27_Witness ==
    /\ retrieved # Nil
    /\ retrieved.min_score = [num |-> 1, den |-> 4]
    /\ retrieved.results.distances = <<1, 3>>
    /\ Len(retrieved.docs) = 2
    /\ retrieved.docs[2].content = retrieved.results.documents[2]
    /\ retrieved.docs[2].score = [num |-> 1, den |-> 4]

\* two hits at distances 0 and 3 with min_score 1/2: the first alone is returned
C27_WitnessDropped ==
    /\ retrieved # Nil
    /\ retrieved.min_score = [num |-> 1, den |-> 2]
    /\ retrieved.results.distances = <<0, 3>>
    /\ Len(retrieved.docs) = 1
    /\ retrieved.docs[1].content = retrieved.results.documents[1]

\* an empty collection: the answer has no hit and retrieve returns the empty list
C27_WitnessEmpty ==
    /\ retrieved # Nil
    /\ collection.chunks = {}
    /\ retrieved.results.documents = <<>>
    /\ retrieved.docs = <<>>

\* the text s without the blanks around it ("" for a blank s)
Trimmed(s) ==
    LET inked == {i \in 1..Len(s) : s[i] # " "}
    IN  IF inked = {} THEN <<>>
        ELSE SubSeq(s, CHOOSE i \in inked : \A j \in inked : i <= j,
                       CHOOSE i \in inked : \A j \in inked : j <= i)

\* the chunks owed to the files fs: one per image, named after its stem, and,
\* when pdfs says that PDFs are read, one per page of a PDF that is not blank
ChunksOf(fs, pdfs) ==
    {[id |-> f.stem,
      document |-> <<"P", "r", "o", "c", "e", "s", "s", " ", "d", "i", "a", "g", "r", "a", "m", ":", " ">>
                   \o [i \in 1..Len(f.stem) |->
                          IF f.stem[i] = "_" \/ f.stem[i] = "-" THEN " " ELSE f.stem[i]],
      metadata |-> [source |-> f.stem \o f.suffix, type |-> "image"]] :
        f \in {g \in fs : g.suffix \in {<<".", "p", "n", "g">>, <<".", "j", "p", "g">>,
                                        <<".", "j", "p", "e", "g">>}}}
    \cup
    (IF pdfs
     THEN UNION {{[id |-> f.stem \o <<"_", "p">> \o <<(<<"1", "2", "3", "4", "5", "6", "7", "8", "9">>)[n]>>,
                   document |-> Trimmed(f.pages[n]),
                   metadata |-> [source |-> f.stem \o f.suffix, page |-> n, type |-> "pdf"]] :
                     n \in {k \in 1..Len(f.pages) : Trimmed(f.pages[k]) # <<>>}} :
                   f \in {g \in fs : g.suffix \in {<<".", "p", "d", "f">>, <<".", "P", "D", "F">>}}}
     ELSE {})

(***************************************************************************)
(* C28, as stated.  After a run of ingest that succeeded, and after a      *)
(* second one on the same folder, the collection exists and holds the      *)
(* chunks of the folder's files, one per image and one per page of a PDF   *)
(* that is not blank, and nothing else, whatever it held before.           *)
(***************************************************************************)
C28_AsStated ==
    ingested \in {"once", "again"} =>
        collection = [exists |-> TRUE, chunks |-> ChunksOf(folder, TRUE)]

(***************************************************************************)
(* C28.  The same where pymupdf is installed; where it is not, the pages   *)
(* of the PDFs are left out and the collection holds the chunks of the     *)
(* images alone.  In both cases nothing of what the collection held before *)
(* is left, and a second run on the same folder leaves what the first did. *)
(***************************************************************************)
C28_FullReplace ==
    ingested \in {"once", "again"} =>
        collection = [exists |-> TRUE, chunks |-> ChunksOf(folder, pymupdf)]

\* a second run leaves the collection as the first left it
C28_Idempotent ==
    [][(ingested \in {"once", "again"} /\ ingested' = "again") => collection' = collection]_vars

\* ingest has run twice on a folder with the PDF, an image and another file:
\* the collection holds pages 1 and 3 of the PDF and the image
C28_Witness ==
    /\ ingested = "again"
    /\ pymupdf
    /\ Cardinality(folder) = 3
    /\ Cardinality(collection.chunks) = 3
    /\ \E c \in collection.chunks :
          /\ c.id = <<"a", "_", "p", "3">>
          /\ c.document = <<"B">>
          /\ c.metadata.page = 3
    /\ \E c \in collection.chunks :
          /\ c.id = <<"c", "_", "d", "-", "e">>
          /\ c.document = <<"P", "r", "o", "c", "e", "s", "s", " ", "d", "i", "a", "g", "r", "a", "m", ":", " ", "c", " ", "d", " ", "e">>

\* without pymupdf a run succeeded on a folder that holds the PDF, and the
\* collection holds none of its pages
C28_WitnessNoPdf ==
    /\ ingested = "once"
    /\ ~pymupdf
    /\ \E f \in folder : f.suffix = <<".", "P", "D", "F">>
    /\ \A c \in collection.chunks : c.metadata.type = "image"

\* two files of one id: the run failed and left the collection empty
C28_WitnessFailed ==
    /\ ingested = "failed"
    /\ folder # {}
    /\ collection = [exists |-> TRUE, chunks |-> {}]

=========================================================================
